---- MODULE Spec2Model ----
(***************************************************************************)
(* A model of mailcheck_lib: the smtp_verify prober                        *)
(* (check_mailaddress_exists / probe_host) and its resolve_hosts, the mx   *)
(* deliverability prober (check_with_resolver / verify_with_server /       *)
(* aggregate_status), the DNS authentication evaluators (SPF, DMARC, DKIM),*)
(* the auth check_with_resolver call and its AuthLookupOptions, the        *)
(* validator's analysis of special characters, the read_reply of the two   *)
(* SMTP sessions, and the TLS upgrade of the smtp_verify stream.           *)
(*                                                                         *)
(* Each subsystem has its own variables and its own specification; while   *)
(* one subsystem runs, the variables of the others stay at their idle      *)
(* values.                                                                 *)
(***************************************************************************)
EXTENDS Integers, Sequences, FiniteSets, TLC

VARIABLES
    \* ---- smtp_verify::check_mailaddress_exists --------------------------
    hosts,            \* the resolved host candidates, in resolved order
    options,          \* SmtpProbeOptions: starttls_required, catchall_probes
    catchall_locals,  \* the random local parts generated for the call
    repertoire,       \* what the servers of this call may answer
    pc,               \* where the call stands
    cur,              \* index in hosts of the candidate being probed
    session,          \* the SmtpSession of probe_host (transcript, tls)
    frame,            \* the locals of probe_host
    mx_tried,
    transcripts,
    last_result,
    report,           \* the value returned by the call
    host_results,     \* what probe_host returned for each candidate so far
    wire,             \* what really went over the sockets, in order
    handshakes,       \* the TLS handshakes made, in order: the host, the outcome
    \* ---- mx::deliverability::check_with_resolver -------------------------
    mx_records,       \* the MX records, sorted and deduplicated
    mx_options,       \* MailboxCheckOptions: max_servers, use_vrfy
    mx_repertoire,    \* what the servers of this call may answer
    mx_pc,            \* where the call stands
    mx_cur,           \* index in mx_records of the record being verified
    attempt,          \* the ServerAttempt verify_with_server is building
    fallback,         \* the local `fallback` of verify_with_server
    attempts,         \* the attempts made so far
    verification,     \* the value returned by the call
    faults,           \* the failures the sockets really had, in order
    \* ---- auth::spf, auth::dmarc, auth::dkim evaluators --------------------
    txt_records,      \* the TXT records handed to evaluate
    auth_pc,          \* where the evaluation stands
    spf_status,       \* the SpfStatus returned
    dmarc_status,     \* the DmarcStatus returned
    dkim_policy,      \* the DkimPolicyStatus returned
    dkim_selector,    \* the DkimSelectorStatus returned
    \* ---- auth::check_with_resolver ---------------------------------------
    auth_options,     \* AuthLookupOptions: dkim_selectors, check_dkim_policy
    lookups,          \* the names looked up so far, in order
    selector_statuses, \* the local selector_statuses of the call
    selector_inputs,  \* the selectors handed to with_dkim_selector so far
    auth_result,      \* the value returned by the call
    \* ---- validator::spec::analyze_spec_characters, apply_policy ----------
    sc_input,         \* local, the labels of domain, options, the reasons so far
    sc_pc,            \* where the analysis stands
    scan,             \* process_segment: the segment, the position, its locals
    ascii_local,      \* the hint buffer of the local part
    ascii_domain,     \* the hint buffer of the domain
    computation,      \* SpecComputation
    reasons,          \* the reasons list handed to apply_policy
    \* ---- smtp_verify::dns::resolve_hosts ---------------------------------
    dns,              \* what the resolver answers: the MX lookup, the addresses
    max_hosts,        \* options.max_mx
    rs_pc,            \* where the resolution stands
    candidates,       \* the local `hosts` of resolve_hosts
    rs_result,        \* the value resolve_hosts returned
    contacted,        \* the hosts check_mailaddress_exists has probed
    \* ---- SmtpStream::read_reply, SmtpSession::read_reply ------------------
    rr_session,       \* which session reads: "smtp_verify" or "mx"
    rr_input,         \* the lines the peer sends, then the connection closes
    rr_pos,           \* the next line of rr_input to read
    rr_code,          \* the local `code`
    rr_lines,         \* the local `lines` / `message_lines`
    rr_result,        \* the value read_reply returned
    \* ---- smtp_verify::session::upgrade_tls, complete_handshake -----------
    hs_timeout,       \* options.timeout(): None or Some(duration)
    hs_script,        \* what the handshake reports, poll after poll
    hs_pc,            \* where upgrade_tls stands
    hs_polls,         \* the calls of connect / handshake made so far
    hs_result         \* the value upgrade_tls returned

probeVars == <<hosts, options, catchall_locals, repertoire, pc, cur, session,
               frame, mx_tried, transcripts, last_result, report, host_results,
               wire, handshakes>>

mxVars == <<mx_records, mx_options, mx_repertoire, mx_pc, mx_cur, attempt,
            fallback, attempts, verification, faults>>

\* the statuses the evaluators return
authStatuses == <<spf_status, dmarc_status, dkim_policy, dkim_selector>>
\* the state of auth::check_with_resolver
authCall == <<auth_options, lookups, selector_statuses, selector_inputs, auth_result>>

authVars == <<txt_records, auth_pc, authStatuses, authCall>>

charVars == <<sc_input, sc_pc, scan, ascii_local, ascii_domain, computation, reasons>>

resolveVars == <<dns, max_hosts, rs_pc, candidates, rs_result, contacted>>

replyVars == <<rr_session, rr_input, rr_pos, rr_code, rr_lines, rr_result>>

tlsVars == <<hs_timeout, hs_script, hs_pc, hs_polls, hs_result>>

vars == <<probeVars, mxVars, authVars, charVars, resolveVars, replyVars, tlsVars>>

\* what a call of the smtp_verify prober leaves alone
outsideProbe == <<mxVars, authVars, charVars, resolveVars, replyVars, tlsVars>>
\* what a call of the mx prober leaves alone
outsideMx == <<probeVars, authVars, charVars, resolveVars, replyVars, tlsVars>>
\* what an evaluation of TXT records leaves alone
outsideAuth == <<probeVars, mxVars, charVars, resolveVars, replyVars, tlsVars>>
\* what an analysis of special characters leaves alone
outsideChars == <<probeVars, mxVars, authVars, resolveVars, replyVars, tlsVars>>
\* what a resolution of the host candidates leaves alone
outsideResolve == <<probeVars, mxVars, authVars, charVars, replyVars, tlsVars>>
\* what a read of a reply leaves alone
outsideReply == <<probeVars, mxVars, authVars, charVars, resolveVars, tlsVars>>
\* what a TLS upgrade leaves alone
outsideTls == <<probeVars, mxVars, authVars, charVars, resolveVars, replyVars>>

(***************************************************************************)
(* The idle values of each subsystem.                                      *)
(***************************************************************************)
ProbeIdle ==
    /\ hosts = <<>>
    /\ options = [starttls_required |-> FALSE, catchall_probes |-> 0]
    /\ catchall_locals = <<>>
    /\ repertoire = "core"
    /\ pc = "idle"
    /\ cur = 0
    /\ session = <<>>
    /\ frame = <<>>
    /\ mx_tried = <<>>
    /\ transcripts = <<>>
    /\ last_result = <<>>
    /\ report = <<>>
    /\ host_results = <<>>
    /\ wire = <<>>
    /\ handshakes = <<>>

ReplyIdle ==
    /\ rr_session = ""
    /\ rr_input = <<>>
    /\ rr_pos = 0
    /\ rr_code = <<>>
    /\ rr_lines = <<>>
    /\ rr_result = <<>>

TlsIdle ==
    /\ hs_timeout = <<>>
    /\ hs_script = <<>>
    /\ hs_pc = "idle"
    /\ hs_polls = 0
    /\ hs_result = <<>>

ResolveIdle ==
    /\ dns = <<>>
    /\ max_hosts = 0
    /\ rs_pc = "idle"
    /\ candidates = <<>>
    /\ rs_result = <<>>
    /\ contacted = <<>>

CharsIdle ==
    /\ sc_input = <<>>
    /\ sc_pc = "idle"
    /\ scan = <<>>
    /\ ascii_local = <<>>
    /\ ascii_domain = <<>>
    /\ computation = <<>>
    /\ reasons = <<>>

AuthStatusesIdle ==
    /\ spf_status = <<>>
    /\ dmarc_status = <<>>
    /\ dkim_policy = <<>>
    /\ dkim_selector = <<>>

AuthCallIdle ==
    /\ auth_options = [dkim_selectors |-> <<>>, check_dkim_policy |-> FALSE]
    /\ lookups = <<>>
    /\ selector_statuses = <<>>
    /\ selector_inputs = <<>>
    /\ auth_result = <<>>

AuthIdle ==
    /\ txt_records = <<>>
    /\ auth_pc = "idle"
    /\ AuthStatusesIdle
    /\ AuthCallIdle

MxIdle ==
    /\ mx_records = <<>>
    /\ mx_options = [max_servers |-> 0, use_vrfy |-> FALSE]
    /\ mx_repertoire = "core"
    /\ mx_pc = "idle"
    /\ mx_cur = 0
    /\ attempt = <<>>
    /\ fallback = <<>>
    /\ attempts = <<>>
    /\ verification = <<>>
    /\ faults = <<>>

\* one subsystem runs and the others are idle
ProbeAlone == MxIdle /\ AuthIdle /\ CharsIdle /\ ResolveIdle /\ ReplyIdle /\ TlsIdle
MxAlone == ProbeIdle /\ AuthIdle /\ CharsIdle /\ ResolveIdle /\ ReplyIdle /\ TlsIdle
AuthAlone == ProbeIdle /\ MxIdle /\ CharsIdle /\ ResolveIdle /\ ReplyIdle /\ TlsIdle
CharsAlone == ProbeIdle /\ MxIdle /\ AuthIdle /\ ResolveIdle /\ ReplyIdle /\ TlsIdle
ResolveAlone == ProbeIdle /\ MxIdle /\ AuthIdle /\ CharsIdle /\ ReplyIdle /\ TlsIdle
ReplyAlone == ProbeIdle /\ MxIdle /\ AuthIdle /\ CharsIdle /\ ResolveIdle /\ TlsIdle
TlsAlone == ProbeIdle /\ MxIdle /\ AuthIdle /\ CharsIdle /\ ResolveIdle /\ ReplyIdle

(***************************************************************************)
(* Bounds of the model.                                                    *)
(***************************************************************************)
MaxHosts == 2
MaxProbes == 2
MaxAddrs == 2

(***************************************************************************)
(* smtp_verify: values.                                                    *)
(***************************************************************************)
\* probe.rs:46  options.catchall_probes.min(5)
CatchallCap == 5

TargetLocal == "user01"
AliasPool == {"user01", "x7Kq2m"}

NoReason == [text |-> "", arg |-> 0]
Exists == [kind |-> "Exists", reason |-> NoReason]
DoesNotExist == [kind |-> "DoesNotExist", reason |-> NoReason]
CatchAll == [kind |-> "CatchAll", reason |-> NoReason]
Indeterminate(text, arg) ==
    [kind |-> "Indeterminate", reason |-> [text |-> text, arg |-> arg]]

\* SmtpVerifyError, by the text its Display gives
ConnectError == "connection failed"
IoError == "I/O error"
TlsError == "TLS handshake failed"
ProtocolError == "protocol error"

Min(a, b) == IF a < b THEN a ELSE b

\* SmtpReply predicates
is_positive_completion(code) == code >= 200 /\ code < 300
is_transient_failure(code) == code >= 400 /\ code < 500
\* mutant: a 4xx code counts as a permanent failure too
is_permanent_failure_from_400(code) == code >= 400 /\ code < 600

is_permanent_failure(code) == code >= 500 /\ code < 600

\* mutant: no capability is ever found
has_capability_never(reply, cap) == FALSE

has_capability(reply, cap) ==
    \E i \in 1..Len(reply.lines) : reply.lines[i] = cap

\* mutant: only 550 counts as "no such mailbox"
is_permanent_no_mailbox_only_550(code) == code = 550

is_permanent_no_mailbox(code) == code \in {550, 551, 553}

\* TargetExistence: Accepted is kind "Accepted", the rest are Existence values
classify_target(code) ==
    IF is_positive_completion(code) THEN [kind |-> "Accepted", reason |-> NoReason]
    ELSE IF is_permanent_no_mailbox(code) THEN DoesNotExist
    ELSE IF code = 521 THEN Indeterminate("521 host does not accept mail", 0)
    ELSE IF is_transient_failure(code) THEN Indeterminate("temporary failure", code)
    ELSE Indeterminate("unexpected response", code)

\* mutant: a rejected alias is looked at before an accepted one
catchall_verdict_rejected_first(accepted_random, rejected_random, tempfail_random) ==
    IF rejected_random > 0 /\ tempfail_random = 0 THEN Exists
    ELSE IF accepted_random > 0 THEN CatchAll
    ELSE IF tempfail_random > 0
        THEN Indeterminate("temporary failure on catch-all probes", 0)
    ELSE Indeterminate("ambiguous catch-all probes", 0)

\* the verdict after the catch-all probes
catchall_verdict(accepted_random, rejected_random, tempfail_random) ==
    IF accepted_random > 0 THEN CatchAll
    ELSE IF rejected_random > 0 /\ tempfail_random = 0 THEN Exists
    ELSE IF tempfail_random > 0
        THEN Indeterminate("temporary failure on catch-all probes", 0)
    ELSE Indeterminate("ambiguous catch-all probes", 0)

\* mutant: only Exists ends the call at once
is_final_verdict_only_exists(existence) == existence.kind = "Exists"

\* the match arm that ends the call at once
is_final_verdict(existence) == existence.kind \in {"Exists", "DoesNotExist"}

confidence_for(existence) ==
    CASE existence.kind = "Exists" -> 95
      [] existence.kind = "DoesNotExist" -> 95
      [] existence.kind = "CatchAll" -> 70
      [] OTHER -> 40

SmtpProbeReport(result, tried, transcript) ==
    [result |-> result, mx_tried |-> tried, transcript |-> transcript,
     confidence |-> confidence_for(result)]

(***************************************************************************)
(* smtp_verify: the session.                                               *)
(***************************************************************************)
Line(host, dir, code, text) ==
    [host |-> host, dir |-> dir, code |-> code, text |-> text]

Reply(code, lines) == [kind |-> "reply", code |-> code, lines |-> lines]
\* a failed write leaves the command unsent; a failed read follows a sent one
WriteFails(err) == [kind |-> "error", err |-> err, sent |-> FALSE]
ReadFails(err) == [kind |-> "error", err |-> err, sent |-> TRUE]

NoSession == [open |-> FALSE, tls |-> FALSE, transcript |-> <<>>]
NoFrame == [accepted_random |-> 0, rejected_random |-> 0, tempfail_random |-> 0,
            next_alias |-> 0, verdict |-> [kind |-> "None", reason |-> NoReason]]

record(transcript, host, dir, code, text) ==
    Append(transcript, Line(host, dir, code, text))

record_reply(transcript, host, reply) ==
    IF reply.lines = <<>>
    THEN record(transcript, host, "S", reply.code, "")
    ELSE transcript \o
         [i \in 1..Len(reply.lines) |-> Line(host, "S", reply.code, reply.lines[i])]

\* what a reply adds to the wire: its lines, as received
ReplyOnWire(host, reply) ==
    [i \in 1..Len(reply.lines) |-> Line(host, "S", reply.code, reply.lines[i])]

\* SmtpSession::send_command against a server that answers resp:
\* the transcript and the wire afterwards
send_command_transcript(transcript, host, command, resp) ==
    LET sent == record(transcript, host, "C", 0, command) IN
    IF resp.kind = "reply" THEN record_reply(sent, host, resp) ELSE sent

send_command_wire(w, host, command, resp) ==
    IF resp.kind = "reply"
    THEN Append(w, Line(host, "C", 0, command)) \o ReplyOnWire(host, resp)
    ELSE IF resp.sent THEN Append(w, Line(host, "C", 0, command))
    ELSE w

\* SmtpSession::quit: the reply is recorded only when it could be read
quit_transcript(transcript, host, resp) ==
    LET sent == record(transcript, host, "C", 0, "QUIT") IN
    IF resp.kind = "reply" THEN record_reply(sent, host, resp) ELSE sent

\* SmtpSession::connect: the first address that accepts the connection
session_connect(results) == \E i \in 1..Len(results) : results[i]

(***************************************************************************)
(* smtp_verify: what the servers may answer.  A call to a single host is   *)
(* explored against the full repertoire; a call to several hosts against   *)
(* the core one, so that every combination of dialogues is enumerated.     *)
(***************************************************************************)
Full == repertoire = "full"

Failures ==
    IF Full THEN {WriteFails(IoError), ReadFails(IoError), ReadFails(ProtocolError)}
    ELSE {ReadFails(IoError)}

BannerResponses ==
    IF Full
    THEN {Reply(220, <<"ready">>), Reply(521, <<"no mail">>), Reply(554, <<"no service">>),
          ReadFails(IoError), ReadFails(ProtocolError)}
    ELSE {Reply(220, <<"ready">>), Reply(521, <<"no mail">>)}

EhloResponses ==
    IF Full
    THEN {Reply(250, <<"mx", "STARTTLS">>), Reply(250, <<"mx">>),
          Reply(502, <<"unrecognized">>)} \cup Failures
    ELSE {Reply(250, <<"mx", "SIZE">>)}

StartTlsResponses == {Reply(220, <<"go ahead">>), Reply(454, <<"TLS not available">>)} \cup Failures
HandshakeOutcomes == {"ok", "failure"}
EhloTlsResponses == {Reply(250, <<"mx">>), ReadFails(IoError)}

MailResponses ==
    IF Full
    THEN {Reply(250, <<"ok">>), Reply(451, <<"later">>), Reply(550, <<"denied">>)} \cup Failures
    ELSE {Reply(250, <<"ok">>)}

RcptCodes == IF Full THEN {250, 251, 354, 450, 521, 550, 551, 552, 553} ELSE {250, 450, 550}
RcptResponses == {Reply(c, <<"rcpt">>) : c \in RcptCodes} \cup Failures

AliasCodes == IF Full THEN {250, 354, 450, 550, 551, 552, 553} ELSE {250, 450, 550}
AliasResponses ==
    {Reply(c, <<"rcpt">>) : c \in AliasCodes} \cup (IF Full THEN Failures ELSE {})

RsetResponses == {Reply(250, <<"reset">>)} \cup (IF Full THEN Failures ELSE {})
QuitResponses ==
    {Reply(221, <<"bye">>)} \cup (IF Full THEN {WriteFails(IoError), ReadFails(IoError)} ELSE {})

RcptCommand(local) == "RCPT TO:<" \o local \o ">"

(***************************************************************************)
(* smtp_verify: check_mailaddress_exists.                                  *)
(***************************************************************************)
Tuples(S, n) == [1..n -> S]

\* mutant: as many random aliases as catchall_probes asks for
catchall_count_uncapped(o) == o.catchall_probes

\* options.catchall_probes.min(5)
catchall_count(o) == Min(o.catchall_probes, CatchallCap)

ProbeInit ==
    /\ \E n \in 1..MaxHosts : hosts = [i \in 1..n |-> i]
    /\ options \in [starttls_required : BOOLEAN, catchall_probes : 0..MaxProbes]
                       \cup {[starttls_required |-> FALSE, catchall_probes |-> CatchallCap + 1]}
    /\ options.catchall_probes > MaxProbes => Len(hosts) = 1
    /\ catchall_locals \in
           IF options.catchall_probes > MaxProbes
           THEN {[i \in 1..catchall_count(options) |-> "x7Kq2m"]}
           ELSE Tuples(AliasPool, catchall_count(options))
    /\ repertoire = IF Len(hosts) = 1 /\ options.catchall_probes <= MaxProbes
                    THEN "full" ELSE "core"
    /\ pc = "connect"
    /\ cur = 1
    /\ session = NoSession
    /\ frame = NoFrame
    /\ mx_tried = <<>>
    /\ transcripts = <<>>
    /\ last_result = Indeterminate("no server responded", 0)
    /\ report = [result |-> [kind |-> "None", reason |-> NoReason], mx_tried |-> <<>>,
                 transcript |-> <<>>, confidence |-> 0]
    /\ host_results = <<>>
    /\ wire = <<>>
    /\ handshakes = <<>>

host == hosts[cur]

CallState == <<cur, transcripts, last_result, report, host_results>>

\* SmtpVerifyError as probe_host's result
Failed(err) == [kind |-> "Err", reason |-> [text |-> err, arg |-> 0]]

\* the for loop goes on to the next candidate, or the call returns last_result
NextCandidate(result, tried, ts) ==
    IF cur < Len(hosts)
    THEN /\ pc' = "connect"
         /\ cur' = cur + 1
         /\ report' = report
    ELSE /\ pc' = "done"
         /\ cur' = cur
         /\ report' = SmtpProbeReport(result, tried, ts)

\* probe_host returned Ok(host_report)
HostReturnsOk(existence, transcript, tried) ==
    LET ts == transcripts \o transcript IN
    /\ transcripts' = ts
    /\ host_results' = Append(host_results, existence)
    /\ session' = NoSession
    /\ frame' = NoFrame
    /\ IF is_final_verdict(existence)
       THEN /\ report' = SmtpProbeReport(existence, tried, ts)
            /\ pc' = "done"
            /\ UNCHANGED <<cur, last_result>>
       ELSE /\ last_result' = existence
            /\ NextCandidate(existence, tried, ts)

\* probe_host returned Err(err): the session and its transcript are dropped
HostReturnsErr(err, tried) ==
    LET ts == Append(transcripts, Line(host, "!", 0, "error: " \o err)) IN
    /\ transcripts' = ts
    /\ host_results' = Append(host_results, Failed(err))
    /\ session' = NoSession
    /\ frame' = NoFrame
    /\ last_result' = Indeterminate(err, 0)
    /\ NextCandidate(Indeterminate(err, 0), tried, ts)

\* a step of the dialogue that ends the host with `existence` after QUIT
ToQuit(transcript, existence) ==
    /\ session' = [session EXCEPT !.transcript = transcript]
    /\ frame' = [frame EXCEPT !.verdict = existence]
    /\ pc' = "quit"
    /\ UNCHANGED CallState

\* a step of the dialogue that goes on to the next one
ToStep(transcript, step) ==
    /\ session' = [session EXCEPT !.transcript = transcript]
    /\ pc' = step
    /\ UNCHANGED <<frame, CallState>>

Fixed == <<hosts, options, catchall_locals, repertoire, outsideProbe>>

\* mx_tried.push, then SmtpSession::connect over the candidate's addresses
Connect ==
    /\ pc = "connect"
    /\ \E n \in 1..MaxAddrs : \E results \in Tuples(BOOLEAN, n) :
        LET tried == Append(mx_tried, host) IN
        /\ mx_tried' = tried
        /\ IF session_connect(results)
           THEN /\ session' = [open |-> TRUE, tls |-> FALSE, transcript |-> <<>>]
                /\ pc' = "banner"
                /\ UNCHANGED <<frame, CallState>>
           ELSE HostReturnsErr(ConnectError, tried)
    /\ UNCHANGED <<Fixed, wire, handshakes>>

\* session.read_banner, and the 521 check
ReadBanner ==
    /\ pc = "banner"
    /\ \E resp \in BannerResponses :
        IF resp.kind = "error"
        THEN /\ HostReturnsErr(resp.err, mx_tried)
             /\ wire' = wire
        ELSE LET t == record_reply(session.transcript, host, resp) IN
             /\ wire' = wire \o ReplyOnWire(host, resp)
             /\ IF resp.code = 521
                THEN ToQuit(t, Indeterminate("server does not receive mail", 0))
                ELSE ToStep(t, "ehlo")
    /\ UNCHANGED <<Fixed, mx_tried, handshakes>>

\* EHLO, and the STARTTLS gate
Ehlo ==
    /\ pc = "ehlo"
    /\ \E resp \in EhloResponses :
        /\ wire' = send_command_wire(wire, host, "EHLO", resp)
        /\ IF resp.kind = "error"
           THEN HostReturnsErr(resp.err, mx_tried)
           ELSE LET t == send_command_transcript(session.transcript, host, "EHLO", resp)
                    starttls_advertised == has_capability(resp, "STARTTLS")
                IN  IF options.starttls_required /\ ~starttls_advertised
                    THEN ToQuit(t, Indeterminate("STARTTLS required but not offered by", host))
                    ELSE IF starttls_advertised THEN ToStep(t, "starttls")
                    ELSE ToStep(t, "mail")
    /\ UNCHANGED <<Fixed, mx_tried, handshakes>>

\* session.starttls: STARTTLS, then the handshake on a 2xx reply
StartTls ==
    /\ pc = "starttls"
    /\ \E resp \in StartTlsResponses, handshake \in HandshakeOutcomes :
        /\ wire' = send_command_wire(wire, host, "STARTTLS", resp)
        /\ handshakes' =
               IF resp.kind = "reply" /\ is_positive_completion(resp.code)
               THEN Append(handshakes, [host |-> host, outcome |-> handshake])
               ELSE handshakes
        /\ IF resp.kind = "error"
           THEN HostReturnsErr(resp.err, mx_tried)
           ELSE LET t == send_command_transcript(session.transcript, host, "STARTTLS", resp)
                IN  IF ~is_positive_completion(resp.code)
                    THEN ToQuit(t, Indeterminate("STARTTLS rejected by", resp.code))
                    ELSE IF handshake = "failure"
                    THEN HostReturnsErr(TlsError, mx_tried)
                    ELSE /\ session' = [session EXCEPT !.transcript = t, !.tls = TRUE]
                         /\ pc' = "ehlo_tls"
                         /\ UNCHANGED <<frame, CallState>>
    /\ UNCHANGED <<Fixed, mx_tried>>

\* EHLO again over TLS; its reply is not looked at
EhloTls ==
    /\ pc = "ehlo_tls"
    /\ \E resp \in EhloTlsResponses :
        /\ wire' = send_command_wire(wire, host, "EHLO", resp)
        /\ IF resp.kind = "error"
           THEN HostReturnsErr(resp.err, mx_tried)
           ELSE ToStep(send_command_transcript(session.transcript, host, "EHLO", resp), "mail")
    /\ UNCHANGED <<Fixed, mx_tried, handshakes>>

MailFrom ==
    /\ pc = "mail"
    /\ \E resp \in MailResponses :
        /\ wire' = send_command_wire(wire, host, "MAIL FROM", resp)
        /\ IF resp.kind = "error"
           THEN HostReturnsErr(resp.err, mx_tried)
           ELSE LET t == send_command_transcript(session.transcript, host, "MAIL FROM", resp)
                IN  IF is_permanent_failure(resp.code)
                    THEN ToQuit(t, Indeterminate("MAIL FROM rejected with", resp.code))
                    ELSE ToStep(t, "rcpt")
    /\ UNCHANGED <<Fixed, mx_tried, handshakes>>

\* the loop over catchall_locals skips the aliases equal to the target
NextAlias(from) ==
    LET later == {i \in from..Len(catchall_locals) : catchall_locals[i] # TargetLocal}
    IN  IF later = {} THEN 0 ELSE CHOOSE i \in later : \A j \in later : i <= j

RcptTarget ==
    /\ pc = "rcpt"
    /\ \E resp \in RcptResponses :
        /\ wire' = send_command_wire(wire, host, RcptCommand(TargetLocal), resp)
        /\ IF resp.kind = "error"
           THEN HostReturnsErr(resp.err, mx_tried)
           ELSE LET t == send_command_transcript(session.transcript, host,
                                                 RcptCommand(TargetLocal), resp)
                    existence == classify_target(resp.code)
                IN  IF existence.kind # "Accepted" THEN ToQuit(t, existence)
                    ELSE IF catchall_locals = <<>>
                    THEN ToQuit(t, Indeterminate("catch-all probes disabled", 0))
                    ELSE /\ session' = [session EXCEPT !.transcript = t]
                         /\ frame' = [frame EXCEPT !.next_alias = NextAlias(1)]
                         /\ pc' = IF NextAlias(1) = 0 THEN "rset" ELSE "alias"
                         /\ UNCHANGED CallState
    /\ UNCHANGED <<Fixed, mx_tried, handshakes>>

\* one turn of the loop over catchall_locals
RcptAlias ==
    /\ pc = "alias"
    /\ \E resp \in AliasResponses :
        LET cmd == RcptCommand(catchall_locals[frame.next_alias])
            following == NextAlias(frame.next_alias + 1)
        IN
        /\ wire' = send_command_wire(wire, host, cmd, resp)
        /\ IF resp.kind = "error"
           THEN HostReturnsErr(resp.err, mx_tried)
           ELSE /\ session' = [session EXCEPT !.transcript =
                                 send_command_transcript(session.transcript, host, cmd, resp)]
                /\ frame' = [frame EXCEPT
                     !.accepted_random =
                         IF is_positive_completion(resp.code) THEN @ + 1 ELSE @,
                     !.rejected_random =
                         IF ~is_positive_completion(resp.code)
                            /\ is_permanent_no_mailbox(resp.code) THEN @ + 1 ELSE @,
                     !.tempfail_random =
                         IF ~is_positive_completion(resp.code)
                            /\ ~is_permanent_no_mailbox(resp.code)
                            /\ is_transient_failure(resp.code) THEN @ + 1 ELSE @,
                     !.next_alias = following]
                /\ pc' = IF following = 0 THEN "rset" ELSE "alias"
                /\ UNCHANGED CallState
    /\ UNCHANGED <<Fixed, mx_tried, handshakes>>

\* session.send_command("RSET").ok()
Rset ==
    /\ pc = "rset"
    /\ \E resp \in RsetResponses :
        /\ wire' = send_command_wire(wire, host, "RSET", resp)
        /\ session' = [session EXCEPT !.transcript =
                         send_command_transcript(session.transcript, host, "RSET", resp)]
        /\ pc' = "quit"
        /\ UNCHANGED <<frame, CallState>>
    /\ UNCHANGED <<Fixed, mx_tried, handshakes>>

\* session.quit().ok(), then probe_host returns its HostReport
Quit ==
    /\ pc = "quit"
    /\ \E resp \in QuitResponses :
        LET t == quit_transcript(session.transcript, host, resp)
            existence ==
                IF frame.verdict.kind = "None"
                THEN catchall_verdict(frame.accepted_random, frame.rejected_random,
                                      frame.tempfail_random)
                ELSE frame.verdict
        IN
        /\ wire' = send_command_wire(wire, host, "QUIT", resp)
        /\ HostReturnsOk(existence, t, mx_tried)
    /\ UNCHANGED <<Fixed, mx_tried, handshakes>>

ProbeNext ==
    \/ Connect
    \/ ReadBanner
    \/ Ehlo
    \/ StartTls
    \/ EhloTls
    \/ MailFrom
    \/ RcptTarget
    \/ RcptAlias
    \/ Rset
    \/ Quit

Next == ProbeNext

Init == ProbeInit /\ ProbeAlone

Spec == Init /\ [][Next]_vars

(***************************************************************************)
(* smtp_verify: the claims.                                                *)
(***************************************************************************)
\* the place of a host in the resolved order
Pos(h) == CHOOSE i \in 1..Len(hosts) : hosts[i] = h

TargetRcpt == RcptCommand(TargetLocal)
AliasRcpts == {RcptCommand(l) : l \in AliasPool \ {TargetLocal}}

\* the places in the wire of the commands in cmds that host h answered; the
\* reply to the command at k starts at k + 1 (a command is followed by its reply)
Answered(h, cmds) ==
    {k \in 1..(Len(wire) - 1) :
        /\ wire[k].host = h /\ wire[k].dir = "C" /\ wire[k].text \in cmds
        /\ wire[k + 1].host = h /\ wire[k + 1].dir = "S"}

\* the codes of the replies host h gave to the RCPT TO of random aliases
AliasReplyCodes(h) == {wire[k + 1].code : k \in Answered(h, AliasRcpts)}

\* the codes of the replies host h gave to the RCPT TO of the target (at most one)
TargetReplyCodes(h) == {wire[k + 1].code : k \in Answered(h, {TargetRcpt})}

\* the commands sent to host h after place k of the wire
CommandsAfter(h, k) ==
    {wire[j].text : j \in {i \in (k + 1)..Len(wire) : wire[i].host = h /\ wire[i].dir = "C"}}

RECURSIVE IsSubseq(_, _)
IsSubseq(a, b) ==
    IF a = <<>> THEN TRUE
    ELSE IF b = <<>> THEN FALSE
    ELSE IF Head(a) = Head(b) THEN IsSubseq(Tail(a), Tail(b))
    ELSE IsSubseq(a, Tail(b))

\* C1: hosts are probed one at a time in the resolved order; as soon as a host
\* yields Exists or DoesNotExist the call has returned a report with exactly
\* that verdict, no later host is ever contacted, and mx_tried is the prefix of
\* the host list up to and including that host.
C1_FirstConclusiveHostWins ==
    /\ mx_tried = SubSeq(hosts, 1, Len(mx_tried))
    /\ \A i \in 1..(Len(wire) - 1) : Pos(wire[i].host) <= Pos(wire[i + 1].host)
    /\ \A i \in 1..Len(host_results) :
        host_results[i].kind \in {"Exists", "DoesNotExist"} =>
            /\ pc = "done"
            /\ report.result = host_results[i]
            /\ report.mx_tried = SubSeq(hosts, 1, i)
            /\ mx_tried = SubSeq(hosts, 1, i)
            /\ \A k \in 1..Len(wire) : Pos(wire[k].host) <= i

\* C1 witness: with two candidates, the first one was conclusive and the call returned
C1_Witness ==
    /\ Len(hosts) = 2
    /\ pc = "done"
    /\ Len(host_results) = 1
    /\ host_results[1] = DoesNotExist

\* C2: when no host yields Exists or DoesNotExist, the result is the verdict of
\* the last host whose verdict was not Indeterminate (CatchAll), whatever the
\* hosts probed after it gave; it is Indeterminate only if every attempted host
\* was Indeterminate or failed.
C2_LastNonIndeterminateKept ==
    (pc = "done" /\ \A i \in 1..Len(host_results) :
                        host_results[i].kind \notin {"Exists", "DoesNotExist"}) =>
        LET kept == {i \in 1..Len(host_results) : host_results[i].kind = "CatchAll"}
        IN  IF kept # {} THEN report.result = CatchAll
            ELSE report.result.kind = "Indeterminate"

\* C3: a 550, 551 or 553 reply to the RCPT TO of the target gives the host the
\* verdict DoesNotExist and the only command sent to it afterwards is QUIT; any
\* other non-2xx reply gives Indeterminate.
C3_RejectedTargetEndsHost ==
    \A h \in 1..Len(hosts) : \A k \in Answered(hosts[h], {TargetRcpt}) :
        /\ wire[k + 1].code \in {550, 551, 553} =>
            /\ CommandsAfter(hosts[h], k) \subseteq {"QUIT"}
            /\ Len(host_results) >= h => host_results[h] = DoesNotExist
        /\ (wire[k + 1].code \notin {550, 551, 553} /\ wire[k + 1].code \notin 200..299) =>
            /\ CommandsAfter(hosts[h], k) \subseteq {"QUIT"}
            /\ Len(host_results) >= h => host_results[h].kind = "Indeterminate"

\* C3 witness: a host answered 553 to the target and was given DoesNotExist
C3_Witness ==
    /\ pc = "done"
    /\ 553 \in TargetReplyCodes(hosts[1])
    /\ host_results[1] = DoesNotExist
    /\ wire[Len(wire)].dir = "S" /\ wire[Len(wire)].code = 221

\* C4: once the target was accepted and the catch-all probes were sent, the host
\* verdict is CatchAll if a random alias got a 2xx reply, else Exists if one got
\* 550/551/553 and none got 4xx, else Indeterminate; Exists is never given to a
\* host on which a random alias was accepted or temporarily failed.
C4_CatchAllVerdict ==
    \A h \in 1..Len(host_results) :
        LET codes == AliasReplyCodes(hosts[h])
            accepted == codes \cap (200..299) # {}
            rejected == codes \cap {550, 551, 553} # {}
            tempfail == codes \cap (400..499) # {}
        IN
        /\ (/\ host_results[h].kind # "Err"
            /\ TargetReplyCodes(hosts[h]) \cap (200..299) # {}
            /\ catchall_locals # <<>>) =>
                IF accepted THEN host_results[h] = CatchAll
                ELSE IF rejected /\ ~tempfail THEN host_results[h] = Exists
                ELSE host_results[h].kind = "Indeterminate"
        /\ host_results[h] = Exists => (~accepted /\ ~tempfail)

\* C4 witness: a host accepted one random alias, rejected another, and is CatchAll
C4_Witness ==
    /\ Len(host_results) >= 1
    /\ host_results[1] = CatchAll
    /\ {250, 550} \subseteq AliasReplyCodes(hosts[1])

\* C6: when every TCP connect to every attempted host fails, the call returns
\* Indeterminate with the reason "no server responded".
C6_AllUnreachableReason ==
    (pc = "done" /\ \A i \in 1..Len(host_results) : host_results[i] = Failed(ConnectError)) =>
        report.result = Indeterminate("no server responded", 0)

\* C7: the transcript of the report holds, in order, every command sent to and
\* every reply line received from every host attempted, also for a host whose
\* session ended with an error.
C7_TranscriptHoldsTheWire ==
    pc = "done" => IsSubseq(wire, report.transcript)

(***************************************************************************)
(* mx::deliverability: values.                                             *)
(***************************************************************************)
MaxRecords == 2

MxReply(code, message) == [kind |-> "reply", code |-> code, message |-> message]
\* io::Error of SmtpSession::send_command (the write) and read_reply (the read:
\* closed or timed out, or a line that is no SMTP reply)
MxWriteFails == [kind |-> "error", err |-> "write failed"]
MxReadFails == [kind |-> "error", err |-> "connection closed while reading reply"]
MxMalformed == [kind |-> "error", err |-> "invalid SMTP reply"]

\* SmtpEvent
Sent(stage, command) == [type |-> "Sent", stage |-> stage, code |-> 0, text |-> command]
Received(stage, reply) ==
    [type |-> "Received", stage |-> stage, code |-> reply.code, text |-> reply.message]
ErrorEvent(stage, message) ==
    [type |-> "Error", stage |-> stage, code |-> 0, text |-> message]

\* AttemptOutcome
Accepted(method, reply) ==
    [kind |-> "Accepted", method |-> method, code |-> reply.code, message |-> reply.message]
Rejected(method, reply) ==
    [kind |-> "Rejected", method |-> method, code |-> reply.code, message |-> reply.message]
TemporaryFailure(method, reply) ==
    [kind |-> "TemporaryFailure", method |-> method, code |-> reply.code,
     message |-> reply.message]
Unreachable(message) ==
    [kind |-> "Unreachable", method |-> "", code |-> 0, message |-> message]
MxProtocolError(message) ==
    [kind |-> "ProtocolError", method |-> "", code |-> 0, message |-> message]
NoVerification(message) ==
    [kind |-> "NoVerification", method |-> "", code |-> 0, message |-> message]
NoFallback == [kind |-> "None", method |-> "", code |-> 0, message |-> ""]

\* ServerAttempt::new
ServerAttempt(exchange) ==
    [exchange |-> exchange, address |-> "", events |-> <<>>,
     outcome |-> NoVerification("verification not attempted")]

\* MailboxStatus
Status(kind, code, message) == [kind |-> kind, code |-> code, message |-> message]

IsKind(a, kind) == a.outcome.kind = kind

\* the first attempt of the given kind (find_map)
FirstOf(as, kind) ==
    as[CHOOSE i \in 1..Len(as) :
        /\ IsKind(as[i], kind)
        /\ \A j \in 1..(i - 1) : ~IsKind(as[j], kind)]

\* mutant: a temporary failure is looked for before a rejection
aggregate_status_tempfail_first(as) ==
    IF \E i \in 1..Len(as) : IsKind(as[i], "Accepted") THEN Status("Deliverable", 0, "")
    ELSE IF \E i \in 1..Len(as) : IsKind(as[i], "TemporaryFailure")
        THEN Status("TemporaryFailure", FirstOf(as, "TemporaryFailure").outcome.code,
                    FirstOf(as, "TemporaryFailure").outcome.message)
    ELSE IF \E i \in 1..Len(as) : IsKind(as[i], "Rejected")
        THEN Status("Rejected", FirstOf(as, "Rejected").outcome.code,
                    FirstOf(as, "Rejected").outcome.message)
    ELSE IF \A i \in 1..Len(as) : IsKind(as[i], "Unreachable") THEN Status("Unreachable", 0, "")
    ELSE Status("Unverified", 0, "")

aggregate_status(as) ==
    IF \E i \in 1..Len(as) : IsKind(as[i], "Accepted") THEN Status("Deliverable", 0, "")
    ELSE IF \E i \in 1..Len(as) : IsKind(as[i], "Rejected")
        THEN Status("Rejected", FirstOf(as, "Rejected").outcome.code,
                    FirstOf(as, "Rejected").outcome.message)
    ELSE IF \E i \in 1..Len(as) : IsKind(as[i], "TemporaryFailure")
        THEN Status("TemporaryFailure", FirstOf(as, "TemporaryFailure").outcome.code,
                    FirstOf(as, "TemporaryFailure").outcome.message)
    ELSE IF \A i \in 1..Len(as) : IsKind(as[i], "Unreachable") THEN Status("Unreachable", 0, "")
    ELSE Status("Unverified", 0, "")

\* check_with_resolver: the status of the Verification it returns
final_status(as) ==
    IF as = <<>> THEN Status("NoMailServer", 0, "") ELSE aggregate_status(as)

Verification(as) == [tag |-> "Ok", status |-> final_status(as), attempts |-> as]
NoVerificationValue == [tag |-> "None", status |-> Status("None", 0, ""), attempts |-> <<>>]

\* what verify_with_server returns
AttemptOk(a) == [tag |-> "Ok", attempt |-> a]
AttemptErr(a) == [tag |-> "Err", attempt |-> a]

\* mutant: the failure is propagated as with `?`
stage_failed_propagates(a, stage, err, outcome) == AttemptErr(a)

\* an Err arm of verify_with_server: the error becomes an event, the outcome is
\* set and the attempt is returned
stage_failed(a, stage, err, outcome) ==
    AttemptOk([a EXCEPT !.events = Append(@, ErrorEvent(stage, err)), !.outcome = outcome])

(***************************************************************************)
(* mx::deliverability: what the servers may answer.  As for smtp_verify, a *)
(* call that verifies one record is explored against the full repertoire,  *)
(* a call that may verify several against the core one.                    *)
(***************************************************************************)
MxFull == mx_repertoire = "full"

ResolveOutcomes == IF MxFull THEN {"addresses", "no address", "error"} ELSE {"addresses", "error"}
ConnectOutcomes == {"connected", "refused"}

GreetingResponses ==
    IF MxFull
    THEN {MxReply(220, "ready"), MxReply(554, "no service"), MxReadFails, MxMalformed}
    ELSE {MxReply(220, "ready")}

MxEhloResponses ==
    IF MxFull
    THEN {MxReply(250, "mx"), MxReply(502, "unrecognized"), MxWriteFails, MxReadFails,
          MxMalformed}
    ELSE {MxReply(250, "mx"), MxReadFails}

VrfyResponses ==
    IF MxFull
    THEN {MxReply(250, "user"), MxReply(252, "cannot verify"), MxReply(354, "odd"),
          MxReply(450, "later"), MxReply(550, "unknown"), MxWriteFails, MxReadFails,
          MxMalformed}
    ELSE {MxReply(252, "cannot verify"), MxReply(550, "unknown"), MxMalformed}

MxMailResponses ==
    IF MxFull
    THEN {MxReply(250, "ok"), MxReply(354, "odd"), MxReply(451, "later"),
          MxReply(550, "denied"), MxWriteFails, MxReadFails}
    ELSE {MxReply(250, "ok")}

MxRcptResponses ==
    IF MxFull
    THEN {MxReply(250, "ok"), MxReply(354, "odd"), MxReply(450, "later"),
          MxReply(550, "unknown"), MxReply(552, "full"), MxWriteFails, MxReadFails,
          MxMalformed}
    ELSE {MxReply(250, "ok"), MxReply(450, "later"), MxReply(550, "unknown"), MxReadFails}

MxRsetResponses ==
    IF MxFull THEN {MxReply(250, "reset"), MxWriteFails, MxReadFails} ELSE {MxReply(250, "reset")}

MxQuitResponses ==
    IF MxFull THEN {MxReply(221, "bye"), MxWriteFails, MxReadFails} ELSE {MxReply(221, "bye")}

(***************************************************************************)
(* mx::deliverability: check_with_resolver.                                *)
(***************************************************************************)
MxRecord(i) == [preference |-> 10 * i, exchange |-> i]

\* records.iter().take(options.max_servers)
Limit == Min(Len(mx_records), mx_options.max_servers)

MxInit ==
    /\ \E n \in 0..MaxRecords : mx_records = [i \in 1..n |-> MxRecord(i)]
    /\ mx_options \in [max_servers : 0..MaxRecords, use_vrfy : BOOLEAN]
    /\ mx_repertoire = IF Limit <= 1 THEN "full" ELSE "core"
    /\ mx_pc = "start"
    /\ mx_cur = 0
    /\ attempt = ServerAttempt(0)
    /\ fallback = NoFallback
    /\ attempts = <<>>
    /\ verification = NoVerificationValue
    /\ faults = <<>>

MxFixed == <<mx_records, mx_options, mx_repertoire, outsideMx>>

Fault(stage) == [server |-> mx_cur, stage |-> stage]

\* the faults after a step whose command or reply was resp
FaultsAfter(stage, resp) ==
    IF resp.kind = "error" THEN Append(faults, Fault(stage)) ELSE faults

after_send(a, stage, command) == [a EXCEPT !.events = Append(@, Sent(stage, command))]
after_reply(a, stage, reply) == [a EXCEPT !.events = Append(@, Received(stage, reply))]
after_error(a, stage, err) == [a EXCEPT !.events = Append(@, ErrorEvent(stage, err))]

\* mutant: a rejection ends the probing as well
stops_probing_on_rejected(a) == IsKind(a, "Accepted") \/ IsKind(a, "Rejected")

\* the break of verify_with_records
stops_probing(a) == IsKind(a, "Accepted")

\* verify_with_server returned: verify_with_records pushes the attempt and goes
\* on, or check_with_resolver returns
AttemptReturns(result) ==
    /\ attempt' = ServerAttempt(0)
    /\ fallback' = NoFallback
    /\ IF result.tag = "Err"
       THEN /\ verification' = [tag |-> "Err", status |-> Status("None", 0, ""),
                                attempts |-> <<>>]
            /\ mx_pc' = "done"
            /\ UNCHANGED <<mx_cur, attempts>>
       ELSE LET as == Append(attempts, result.attempt) IN
            /\ attempts' = as
            /\ IF stops_probing(result.attempt) \/ mx_cur >= Limit
               THEN /\ verification' = Verification(as)
                    /\ mx_pc' = "done"
                    /\ mx_cur' = mx_cur
               ELSE /\ verification' = verification
                    /\ mx_pc' = "connect"
                    /\ mx_cur' = mx_cur + 1

\* a step of verify_with_server that goes on to the next one
MxToStep(a, step) ==
    /\ attempt' = a
    /\ mx_pc' = step
    /\ UNCHANGED <<mx_cur, attempts, verification>>

\* check_with_resolver up to the first attempt
MxStart ==
    /\ mx_pc = "start"
    /\ IF Limit = 0
       THEN /\ verification' = Verification(<<>>)
            /\ mx_pc' = "done"
            /\ mx_cur' = mx_cur
       ELSE /\ verification' = verification
            /\ mx_pc' = "connect"
            /\ mx_cur' = 1
    /\ UNCHANGED <<MxFixed, attempt, fallback, attempts, faults>>

\* resolve_socket_addrs, then SmtpSession::connect
MxConnect ==
    /\ mx_pc = "connect"
    /\ \E resolved \in ResolveOutcomes, connected \in ConnectOutcomes :
        LET a == ServerAttempt(mx_records[mx_cur].exchange) IN
        CASE resolved = "no address" ->
                /\ AttemptReturns(AttemptOk(
                       [a EXCEPT !.outcome = Unreachable("no socket addresses resolved")]))
                /\ faults' = Append(faults, Fault("Resolve"))
          [] resolved = "error" ->
                /\ AttemptReturns(stage_failed(a, "Connect", "address resolution failed",
                                     Unreachable("failed to resolve socket address")))
                /\ faults' = Append(faults, Fault("Connect"))
          [] resolved = "addresses" /\ connected = "refused" ->
                /\ AttemptReturns(stage_failed(a, "Connect", "connection refused",
                                     Unreachable("connection attempt failed")))
                /\ faults' = Append(faults, Fault("Connect"))
          [] OTHER ->
                /\ MxToStep([a EXCEPT !.address = "peer"], "greeting")
                /\ UNCHANGED <<fallback, faults>>
    /\ UNCHANGED MxFixed

MxGreeting ==
    /\ mx_pc = "greeting"
    /\ \E resp \in GreetingResponses :
        /\ faults' = FaultsAfter("Greeting", resp)
        /\ IF resp.kind = "error"
           THEN AttemptReturns(stage_failed(attempt, "Greeting", resp.err,
                                   MxProtocolError("failed to read greeting")))
           ELSE LET a == after_reply(attempt, "Greeting", resp) IN
                IF ~is_positive_completion(resp.code)
                THEN AttemptReturns(AttemptOk(
                         [a EXCEPT !.outcome = MxProtocolError("unexpected greeting")]))
                ELSE /\ MxToStep(a, "ehlo")
                     /\ UNCHANGED fallback
    /\ UNCHANGED MxFixed

MxEhlo ==
    /\ mx_pc = "ehlo"
    /\ \E resp \in MxEhloResponses :
        LET sent == after_send(attempt, "Ehlo", "EHLO") IN
        /\ faults' = FaultsAfter("Ehlo", resp)
        /\ IF resp = MxWriteFails
           THEN AttemptReturns(stage_failed(sent, "Ehlo", resp.err,
                                   MxProtocolError("failed to send EHLO")))
           ELSE IF resp.kind = "error"
           THEN AttemptReturns(stage_failed(sent, "Ehlo", resp.err,
                                   MxProtocolError("no reply to EHLO")))
           ELSE LET a == after_reply(sent, "Ehlo", resp) IN
                IF ~is_positive_completion(resp.code)
                THEN AttemptReturns(AttemptOk(
                         [a EXCEPT !.outcome = MxProtocolError("EHLO rejected")]))
                ELSE /\ MxToStep(a, IF mx_options.use_vrfy THEN "vrfy" ELSE "mail")
                     /\ UNCHANGED fallback
    /\ UNCHANGED MxFixed

\* the fallback a VRFY reply that is no 2xx leaves
vrfy_fallback(reply) ==
    IF is_permanent_failure(reply.code) THEN Rejected("Vrfy", reply)
    ELSE IF is_transient_failure(reply.code) THEN TemporaryFailure("Vrfy", reply)
    ELSE NoFallback

\* the block under options.use_vrfy
MxVrfy ==
    /\ mx_pc = "vrfy"
    /\ \E resp \in VrfyResponses :
        LET sent == after_send(attempt, "Vrfy", "VRFY") IN
        /\ faults' = FaultsAfter("Vrfy", resp)
        /\ IF resp.kind = "error"
           THEN /\ MxToStep(after_error(sent, "Vrfy", resp.err), "mail")
                /\ UNCHANGED fallback
           ELSE LET a == after_reply(sent, "Vrfy", resp) IN
                IF is_positive_completion(resp.code)
                THEN /\ MxToStep([a EXCEPT !.outcome = Accepted("Vrfy", resp)], "quit")
                     /\ UNCHANGED fallback
                ELSE /\ MxToStep(a, "mail")
                     /\ fallback' = vrfy_fallback(resp)
    /\ UNCHANGED MxFixed

MxMailFrom ==
    /\ mx_pc = "mail"
    /\ \E resp \in MxMailResponses :
        LET sent == after_send(attempt, "MailFrom", "MAIL FROM") IN
        /\ faults' = FaultsAfter("MailFrom", resp)
        /\ IF resp = MxWriteFails
           THEN AttemptReturns(stage_failed(sent, "MailFrom", resp.err,
                                   MxProtocolError("failed to send MAIL FROM")))
           ELSE IF resp.kind = "error"
           THEN AttemptReturns(stage_failed(sent, "MailFrom", resp.err,
                                   MxProtocolError("no reply to MAIL FROM")))
           ELSE LET a == after_reply(sent, "MailFrom", resp) IN
                /\ UNCHANGED fallback
                /\ IF is_permanent_failure(resp.code)
                   THEN MxToStep([a EXCEPT !.outcome = Rejected("RcptTo", resp)], "quit")
                   ELSE IF is_transient_failure(resp.code)
                   THEN MxToStep([a EXCEPT !.outcome = TemporaryFailure("RcptTo", resp)],
                                 "quit")
                   ELSE MxToStep(a, "rcpt")
    /\ UNCHANGED MxFixed

\* the outcome the RCPT TO reply gives
rcpt_outcome(reply, fb) ==
    IF is_positive_completion(reply.code) THEN Accepted("RcptTo", reply)
    ELSE IF is_transient_failure(reply.code) THEN TemporaryFailure("RcptTo", reply)
    ELSE IF is_permanent_failure(reply.code) THEN Rejected("RcptTo", reply)
    ELSE IF fb.kind # "None" THEN fb
    ELSE NoVerification("RCPT TO response was inconclusive")

MxRcptTo ==
    /\ mx_pc = "rcpt"
    /\ \E resp \in MxRcptResponses :
        LET sent == after_send(attempt, "RcptTo", "RCPT TO") IN
        /\ faults' = FaultsAfter("RcptTo", resp)
        /\ IF resp = MxWriteFails
           THEN AttemptReturns(stage_failed(sent, "RcptTo", resp.err,
                                   MxProtocolError("failed to send RCPT TO")))
           ELSE IF resp.kind = "error"
           THEN AttemptReturns(stage_failed(sent, "RcptTo", resp.err,
                                   MxProtocolError("no reply to RCPT TO")))
           ELSE /\ MxToStep([after_reply(sent, "RcptTo", resp) EXCEPT
                                !.outcome = rcpt_outcome(resp, fallback)], "rset")
                /\ UNCHANGED fallback
    /\ UNCHANGED MxFixed

\* send_rset and send_quit: the command, then its reply or the error
send_and_log(a, stage, command, resp) ==
    LET sent == after_send(a, stage, command) IN
    IF resp.kind = "error" THEN after_error(sent, stage, resp.err)
    ELSE after_reply(sent, stage, resp)

MxRset ==
    /\ mx_pc = "rset"
    /\ \E resp \in MxRsetResponses :
        /\ faults' = FaultsAfter("Rset", resp)
        /\ MxToStep(send_and_log(attempt, "Rset", "RSET", resp), "quit")
        /\ UNCHANGED fallback
    /\ UNCHANGED MxFixed

\* send_quit, then verify_with_server returns Ok(attempt)
MxQuit ==
    /\ mx_pc = "quit"
    /\ \E resp \in MxQuitResponses :
        /\ faults' = FaultsAfter("Quit", resp)
        /\ AttemptReturns(AttemptOk(send_and_log(attempt, "Quit", "QUIT", resp)))
    /\ UNCHANGED MxFixed

MxNext ==
    \/ MxStart
    \/ MxConnect
    \/ MxGreeting
    \/ MxEhlo
    \/ MxVrfy
    \/ MxMailFrom
    \/ MxRcptTo
    \/ MxRset
    \/ MxQuit

MxCallInit == MxInit /\ MxAlone

SpecMx == MxCallInit /\ [][MxNext]_vars

(***************************************************************************)
(* mx::deliverability: the claims about check_with_resolver.               *)
(***************************************************************************)
HasError(a, stage) ==
    \E i \in 1..Len(a.events) : a.events[i].type = "Error" /\ a.events[i].stage = stage

EndsWithError(a, stage) ==
    /\ a.events # <<>>
    /\ a.events[Len(a.events)].type = "Error"
    /\ a.events[Len(a.events)].stage = stage

\* the stages whose failure ends the attempt
DecidingStages == {"Greeting", "Ehlo", "MailFrom", "RcptTo"}

C9_Vrfy252DoesNotConclude ==
    \A k \in 1..Len(attempts) :
        LET a == attempts[k] IN
        (\E i \in 1..Len(a.events) :
            a.events[i] = Received("Vrfy", MxReply(252, "cannot verify")))
        => /\ \E j \in 1..Len(a.events) :
                a.events[j].type = "Sent" /\ a.events[j].stage = "MailFrom"
           /\ a.outcome.method # "Vrfy"

(***************************************************************************)
(* mx::deliverability: the status of a list of attempts, for every list of *)
(* up to MaxAttempts attempts.                                             *)
(***************************************************************************)
MaxAttempts == 3

OutcomePool ==
    {Accepted("RcptTo", MxReply(250, "ok")),
     Rejected("RcptTo", MxReply(550, "unknown")),
     Rejected("Vrfy", MxReply(552, "full")),
     TemporaryFailure("RcptTo", MxReply(450, "later")),
     TemporaryFailure("Vrfy", MxReply(451, "busy")),
     Unreachable("connection attempt failed"),
     MxProtocolError("EHLO rejected"),
     NoVerification("RCPT TO response was inconclusive")}

AggregateInit ==
    /\ mx_records = <<>>
    /\ mx_options = [max_servers |-> 0, use_vrfy |-> FALSE]
    /\ mx_repertoire = "core"
    /\ mx_pc = "aggregate"
    /\ mx_cur = 0
    /\ attempt = ServerAttempt(0)
    /\ fallback = NoFallback
    /\ \E n \in 0..MaxAttempts : \E outcomes \in Tuples(OutcomePool, n) :
          attempts = [i \in 1..n |-> [ServerAttempt(i) EXCEPT !.outcome = outcomes[i]]]
    /\ verification = NoVerificationValue
    /\ faults = <<>>

\* the tail of check_with_resolver
Aggregate ==
    /\ mx_pc = "aggregate"
    /\ verification' = Verification(attempts)
    /\ mx_pc' = "done"
    /\ UNCHANGED <<MxFixed, mx_cur, attempt, fallback, attempts, faults>>

AggregateNext == Aggregate

AggregateCallInit == AggregateInit /\ MxAlone

SpecAggregate == AggregateCallInit /\ [][AggregateNext]_vars

KindsOf(as) == {as[i].outcome.kind : i \in 1..Len(as)}

\* the status carries the code and message of the first attempt of that kind
CarriesFirst(st, as, kind) ==
    /\ st.kind = kind
    /\ \E i \in 1..Len(as) :
          /\ as[i].outcome.kind = kind
          /\ \A j \in 1..(i - 1) : as[j].outcome.kind # kind
          /\ st.code = as[i].outcome.code
          /\ st.message = as[i].outcome.message

\* C8: the status of the attempts is Deliverable if one is Accepted; else
\* Rejected with the code and message of the first Rejected one; else
\* TemporaryFailure with those of the first such one; else Unreachable if all
\* are Unreachable; else Unverified; and NoMailServer when there is none.
C8_AggregatePrecedence ==
    mx_pc = "done" =>
        LET as == verification.attempts
            st == verification.status
        IN  /\ as = attempts
            /\ IF as = <<>> THEN st.kind = "NoMailServer"
               ELSE IF "Accepted" \in KindsOf(as) THEN st.kind = "Deliverable"
               ELSE IF "Rejected" \in KindsOf(as) THEN CarriesFirst(st, as, "Rejected")
               ELSE IF "TemporaryFailure" \in KindsOf(as)
                   THEN CarriesFirst(st, as, "TemporaryFailure")
               ELSE IF KindsOf(as) = {"Unreachable"} THEN st.kind = "Unreachable"
               ELSE st.kind = "Unverified"

\* a temporary failure came first, then two rejections with different codes
C8_Witness ==
    /\ mx_pc = "done"
    /\ Len(attempts) = 3
    /\ attempts[1].outcome = TemporaryFailure("RcptTo", MxReply(450, "later"))
    /\ attempts[2].outcome = Rejected("Vrfy", MxReply(552, "full"))
    /\ attempts[3].outcome = Rejected("RcptTo", MxReply(550, "unknown"))
    /\ verification.status = Status("Rejected", 552, "full")

(***************************************************************************)
(* Strings, character by character.  Alphabet lists the characters the     *)
(* records are written in, in ascending byte order.                        *)
(***************************************************************************)
Alphabet ==
    "\t +,-./0123456789:;=?@ABCDEFGHIJKLMNOPQRSTUVWXYZ_abcdefghijklmnopqrstuvwxyz~"

CharAt(s, i) == SubSeq(s, i, i)
Rest(s) == SubSeq(s, 2, Len(s))
Ord(c) == CHOOSE i \in 1..Len(Alphabet) : CharAt(Alphabet, i) = c

is_whitespace(c) == c \in {" ", "\t"}

lowercase_char(c) ==
    IF Ord(c) >= Ord("A") /\ Ord(c) <= Ord("Z")
    THEN CharAt(Alphabet, Ord(c) + (Ord("a") - Ord("A")))
    ELSE c

RECURSIVE to_ascii_lowercase(_)
to_ascii_lowercase(s) ==
    IF s = "" THEN "" ELSE lowercase_char(CharAt(s, 1)) \o to_ascii_lowercase(Rest(s))

eq_ignore_ascii_case(a, b) == to_ascii_lowercase(a) = to_ascii_lowercase(b)

starts_with(s, prefix) == Len(s) >= Len(prefix) /\ SubSeq(s, 1, Len(prefix)) = prefix

RECURSIVE trim_start(_)
trim_start(s) ==
    IF s # "" /\ is_whitespace(CharAt(s, 1)) THEN trim_start(Rest(s)) ELSE s

RECURSIVE trim_end(_)
trim_end(s) ==
    IF s # "" /\ is_whitespace(CharAt(s, Len(s)))
    THEN trim_end(SubSeq(s, 1, Len(s) - 1))
    ELSE s

trim(s) == trim_end(trim_start(s))

\* the tokens of s, given the token being read
RECURSIVE split_from(_, _)
split_from(s, token) ==
    IF s = "" THEN (IF token = "" THEN <<>> ELSE <<token>>)
    ELSE IF is_whitespace(CharAt(s, 1))
        THEN (IF token = "" THEN <<>> ELSE <<token>>) \o split_from(Rest(s), "")
    ELSE split_from(Rest(s), token \o CharAt(s, 1))

split_whitespace(s) == split_from(s, "")

\* the order of str: byte by byte, a prefix before what it is a prefix of
RECURSIVE str_less(_, _)
str_less(a, b) ==
    IF b = "" THEN FALSE
    ELSE IF a = "" THEN TRUE
    ELSE IF CharAt(a, 1) = CharAt(b, 1) THEN str_less(Rest(a), Rest(b))
    ELSE Ord(CharAt(a, 1)) < Ord(CharAt(b, 1))

RECURSIVE insert_sorted(_, _)
insert_sorted(x, sorted) ==
    IF sorted = <<>> THEN <<x>>
    ELSE IF str_less(Head(sorted), x) THEN <<Head(sorted)>> \o insert_sorted(x, Tail(sorted))
    ELSE <<x>> \o sorted

RECURSIVE sort(_)
sort(v) == IF v = <<>> THEN <<>> ELSE insert_sorted(Head(v), sort(Tail(v)))

\* Vec::dedup: of consecutive equal elements the first is kept
RECURSIVE dedup(_)
dedup(v) ==
    IF Len(v) < 2 THEN v
    ELSE IF v[1] = v[2] THEN dedup(Tail(v))
    ELSE <<v[1]>> \o dedup(Tail(v))

(***************************************************************************)
(* auth::spf: evaluate.                                                    *)
(***************************************************************************)
MaxTxt == 2

\* SpfStatus
SpfStatus(kind, records, rec, detail) ==
    [kind |-> kind, records |-> records, record |-> rec, detail |-> detail]
Missing == SpfStatus("Missing", <<>>, "", "")
MultipleRecords(records) == SpfStatus("MultipleRecords", records, "", "")
Invalid(rec, issue) == SpfStatus("Invalid", <<>>, rec, issue)
Delegated(rec, target) == SpfStatus("Delegated", <<>>, rec, target)
Weak(rec, qualifier) == SpfStatus("Weak", <<>>, rec, qualifier)
Compliant(rec, qualifier) == SpfStatus("Compliant", <<>>, rec, qualifier)

starts_with_ignore_ascii_case(input, prefix) ==
    Len(input) >= Len(prefix) /\ eq_ignore_ascii_case(SubSeq(input, 1, Len(prefix)), prefix)

qualifier_from_token(token) ==
    CASE token = "-all" -> "Fail"
      [] token = "~all" -> "SoftFail"
      [] token = "?all" -> "Neutral"
      [] token \in {"all", "+all"} -> "Pass"
      [] OTHER -> "None"

\* the value of a redirect= token, "" when the token is no redirect or has none
redirect_target(token) ==
    IF starts_with(to_ascii_lowercase(token), "redirect=")
    THEN trim(SubSeq(token, Len("redirect=") + 1, Len(token)))
    ELSE ""

\* the qualifier of the first token that is an all mechanism
RECURSIVE first_qualifier(_)
first_qualifier(tokens) ==
    IF tokens = <<>> THEN "None"
    ELSE IF qualifier_from_token(to_ascii_lowercase(Head(tokens))) # "None"
        THEN qualifier_from_token(to_ascii_lowercase(Head(tokens)))
    ELSE first_qualifier(Tail(tokens))

\* the target of the first redirect= token that has one
RECURSIVE first_redirect(_)
first_redirect(tokens) ==
    IF tokens = <<>> THEN ""
    ELSE IF redirect_target(Head(tokens)) # "" THEN redirect_target(Head(tokens))
    ELSE first_redirect(Tail(tokens))

\* mutant: a redirect is looked at before the qualifier
evaluate_record_redirect_first(rec) ==
    LET segments == split_whitespace(rec)
        qualifier == first_qualifier(Tail(segments))
        redirect == first_redirect(Tail(segments))
    IN  IF segments = <<>> \/ ~eq_ignore_ascii_case(Head(segments), "v=spf1")
        THEN Invalid(rec, "InvalidVersion")
        ELSE IF redirect # "" THEN Delegated(rec, redirect)
        ELSE IF qualifier \in {"Fail", "SoftFail"} THEN Compliant(rec, qualifier)
        ELSE IF qualifier \in {"Neutral", "Pass"} THEN Weak(rec, qualifier)
        ELSE Invalid(rec, "MissingAllMechanism")

\* the part of evaluate that classifies the one record
evaluate_record(rec) ==
    LET segments == split_whitespace(rec)
        version == Head(segments)
        qualifier == first_qualifier(Tail(segments))
        redirect == first_redirect(Tail(segments))
    IN  IF segments = <<>> \/ ~eq_ignore_ascii_case(version, "v=spf1")
        THEN Invalid(rec, "InvalidVersion")
        ELSE IF qualifier \in {"Fail", "SoftFail"} THEN Compliant(rec, qualifier)
        ELSE IF qualifier \in {"Neutral", "Pass"} THEN Weak(rec, qualifier)
        ELSE IF redirect # "" THEN Delegated(rec, redirect)
        ELSE Invalid(rec, "MissingAllMechanism")

\* the records that are SPF records, trimmed
spf_records_of(records) ==
    SelectSeq([i \in 1..Len(records) |-> trim(records[i])],
              LAMBDA r : starts_with_ignore_ascii_case(r, "v=spf1"))

evaluate(records) ==
    LET spf_records == spf_records_of(records) IN
    IF spf_records = <<>> THEN Missing
    ELSE IF Len(spf_records) > 1 THEN MultipleRecords(dedup(sort(spf_records)))
    ELSE evaluate_record(spf_records[1])

TxtPool ==
    {"v=spf1 -all", " v=spf1 -all ", "V=SPF1 ~ALL", "v=spf1 redirect=_spf.example.com",
     "v=spf1 mx ?all +all", "v=spf10 -all", "v=DMARC1; p=none", "v=spf",
     "v=spf1 redirect=_spf.example.com -all",
     "v=spf1 Redirect=_SPF.Example.com redirect=other.example",
     "v=spf1 redirect= mx", "v=spf1 +ALL -all", "v=spf1 all"}

SpfInit ==
    /\ \E n \in 0..MaxTxt : txt_records \in Tuples(TxtPool, n)
    /\ auth_pc = "spf"
    /\ AuthStatusesIdle
    /\ AuthCallIdle

Evaluate ==
    /\ auth_pc = "spf"
    /\ spf_status' = evaluate(txt_records)
    /\ auth_pc' = "done"
    /\ UNCHANGED <<txt_records, dmarc_status, dkim_policy, dkim_selector, authCall,
                   outsideAuth>>

SpfNext == Evaluate

SpfCallInit == SpfInit /\ AuthAlone

SpecSpf == SpfCallInit /\ [][SpfNext]_vars

\* the distinct SPF records of the input
DistinctSpf ==
    {trim(txt_records[i]) :
        i \in {j \in 1..Len(txt_records) :
                  starts_with_ignore_ascii_case(trim(txt_records[j]), "v=spf1")}}

\* C10: the status is Missing exactly when no record is an SPF record, and
\* MultipleRecords exactly when more than one distinct SPF record remains; the
\* same record present several times is evaluated as that one record.
C10_MultipleOnlyWhenDistinct ==
    auth_pc = "done" =>
        /\ spf_status.kind = "Missing" <=> DistinctSpf = {}
        /\ spf_status.kind = "MultipleRecords" <=> Cardinality(DistinctSpf) > 1

(***************************************************************************)
(* auth::spf: the claims about the classification of one record.           *)
(***************************************************************************)
\* the input holds one SPF record, and its version token is v=spf1
SingleSpfRecord ==
    /\ Len(spf_records_of(txt_records)) = 1
    /\ eq_ignore_ascii_case(Head(split_whitespace(spf_records_of(txt_records)[1])), "v=spf1")

AllTokens == {"-all", "~all", "?all", "all", "+all"}

\* C11: one SPF record is classified by its first all-token, whatever its
\* case: -all Compliant{Fail}, ~all Compliant{SoftFail}, ?all Weak{Neutral},
\* all or +all Weak{Pass}, wherever a redirect= stands; without an all-token
\* the first redirect= with a non-empty target gives Delegated with that target
\* as written; with neither the record is Invalid{MissingAllMechanism}.
C11_FirstAllTokenDecides ==
    (auth_pc = "done" /\ SingleSpfRecord) =>
        LET rec == spf_records_of(txt_records)[1]
            toks == Tail(split_whitespace(rec))
            alls == {i \in 1..Len(toks) : to_ascii_lowercase(toks[i]) \in AllTokens}
            redirects == {i \in 1..Len(toks) :
                             /\ starts_with(to_ascii_lowercase(toks[i]), "redirect=")
                             /\ Len(toks[i]) > Len("redirect=")}
            first(S) == CHOOSE i \in S : \A j \in S : i <= j
        IN  IF alls # {}
            THEN LET t == to_ascii_lowercase(toks[first(alls)]) IN
                 spf_status = CASE t = "-all" -> Compliant(rec, "Fail")
                                [] t = "~all" -> Compliant(rec, "SoftFail")
                                [] t = "?all" -> Weak(rec, "Neutral")
                                [] OTHER -> Weak(rec, "Pass")
            ELSE IF redirects # {}
            THEN spf_status =
                     Delegated(rec, SubSeq(toks[first(redirects)], Len("redirect=") + 1,
                                           Len(toks[first(redirects)])))
            ELSE spf_status = Invalid(rec, "MissingAllMechanism")

\* a record whose redirect= stands before its all-token
C11_Witness ==
    /\ auth_pc = "done"
    /\ txt_records = <<"v=spf1 redirect=_spf.example.com -all">>
    /\ spf_status = Compliant("v=spf1 redirect=_spf.example.com -all", "Fail")

(***************************************************************************)
(* Tag lists: the parts of a record between separators, and the key and    *)
(* value of a part.                                                        *)
(***************************************************************************)
\* str::split, given the part being read
RECURSIVE split_parts(_, _, _)
split_parts(s, sep, part) ==
    IF s = "" THEN <<part>>
    ELSE IF CharAt(s, 1) = sep THEN <<part>> \o split_parts(Rest(s), sep, "")
    ELSE split_parts(Rest(s), sep, part \o CharAt(s, 1))

split(s, sep) == split_parts(s, sep, "")

\* splitn(2, sep): what stands before the first separator
RECURSIVE before(_, _)
before(s, sep) ==
    IF s = "" \/ CharAt(s, 1) = sep THEN "" ELSE CharAt(s, 1) \o before(Rest(s), sep)

\* splitn(2, sep): what stands after the first separator, "" without one
RECURSIVE after(_, _)
after(s, sep) ==
    IF s = "" THEN "" ELSE IF CharAt(s, 1) = sep THEN Rest(s) ELSE after(Rest(s), sep)

tag_key(part) == to_ascii_lowercase(trim(before(trim(part), "=")))
tag_value(part) == trim(after(trim(part), "="))

(***************************************************************************)
(* auth::dmarc: evaluate.                                                  *)
(***************************************************************************)
\* DmarcStatus
DmarcStatus(kind, records, rec, policy, detail) ==
    [kind |-> kind, records |-> records, record |-> rec, policy |-> policy,
     detail |-> detail]
DmarcMissing == DmarcStatus("Missing", <<>>, "", "", "")
DmarcMultipleRecords(records) == DmarcStatus("MultipleRecords", records, "", "", "")
DmarcInvalid(rec, issue, policy) == DmarcStatus("Invalid", <<>>, rec, policy, issue)
DmarcWeak(rec, policy, weakness) == DmarcStatus("Weak", <<>>, rec, policy, weakness)
DmarcCompliant(rec, policy) == DmarcStatus("Compliant", <<>>, rec, policy, "")

\* the HashMap of parse_tags after the parts were inserted in order
RECURSIVE insert_tags(_, _)
insert_tags(parts, tags) ==
    IF parts = <<>> THEN tags
    ELSE IF trim(Head(parts)) = "" THEN insert_tags(Tail(parts), tags)
    ELSE insert_tags(Tail(parts), (tag_key(Head(parts)) :> tag_value(Head(parts))) @@ tags)

dmarc_parse_tags(rec) == insert_tags(split(rec, ";"), <<>>)

\* mutant: the policy is compared as written
dmarc_policy_case_sensitive(rec, policy) ==
    CASE policy = "reject" -> DmarcCompliant(rec, "Reject")
      [] policy = "quarantine" -> DmarcWeak(rec, "Quarantine", "QuarantinePolicy")
      [] policy = "none" -> DmarcWeak(rec, "None", "MonitoringPolicy")
      [] OTHER -> DmarcInvalid(rec, "UnknownPolicy", to_ascii_lowercase(policy))

\* the match on the policy
dmarc_policy(rec, policy) ==
    LET lower == to_ascii_lowercase(policy) IN
    CASE lower = "reject" -> DmarcCompliant(rec, "Reject")
      [] lower = "quarantine" -> DmarcWeak(rec, "Quarantine", "QuarantinePolicy")
      [] lower = "none" -> DmarcWeak(rec, "None", "MonitoringPolicy")
      [] OTHER -> DmarcInvalid(rec, "UnknownPolicy", lower)

\* the part of evaluate that classifies the one record
dmarc_evaluate_record(rec) ==
    LET tags == dmarc_parse_tags(rec) IN
    IF "v" \notin DOMAIN tags \/ ~eq_ignore_ascii_case(tags["v"], "dmarc1")
    THEN DmarcInvalid(rec, "InvalidVersion", "")
    ELSE IF "p" \notin DOMAIN tags THEN DmarcInvalid(rec, "MissingPolicy", "")
    ELSE dmarc_policy(rec, tags["p"])

dmarc_records_of(records) ==
    SelectSeq([i \in 1..Len(records) |-> trim(records[i])],
              LAMBDA r : starts_with_ignore_ascii_case(r, "v=dmarc1"))

dmarc_evaluate(records) ==
    LET dmarc_records == dmarc_records_of(records) IN
    IF dmarc_records = <<>> THEN DmarcMissing
    ELSE IF Len(dmarc_records) > 1 THEN DmarcMultipleRecords(dedup(sort(dmarc_records)))
    ELSE dmarc_evaluate_record(dmarc_records[1])

DmarcPool ==
    {"v=DMARC1; p=none; rua=mailto:d@example.com", "v=DMARC1; P = Reject ;",
     " v=dmarc1;p=QUARANTINE", "v=DMARC1; p=none; p=reject", "v=DMARC1; rua=mailto:d@example.com",
     "v=DMARC1; p", "v=DMARC1; p=reject=1", "v=DMARC1; p=monitor", "v=DMARC1x; p=none",
     "v=DMARC1; v=2; p=none", "v=DMARC1;;p=", "v=spf1 -all"}

DmarcInit ==
    /\ \E n \in 0..MaxTxt : txt_records \in Tuples(DmarcPool, n)
    /\ auth_pc = "dmarc"
    /\ AuthStatusesIdle
    /\ AuthCallIdle

DmarcEvaluate ==
    /\ auth_pc = "dmarc"
    /\ dmarc_status' = dmarc_evaluate(txt_records)
    /\ auth_pc' = "done"
    /\ UNCHANGED <<txt_records, spf_status, dkim_policy, dkim_selector, authCall,
                   outsideAuth>>

DmarcNext == DmarcEvaluate

DmarcCallInit == DmarcInit /\ AuthAlone

SpecDmarc == DmarcCallInit /\ [][DmarcNext]_vars

\* the input holds one DMARC record, and its version is DMARC1
SingleDmarcRecord ==
    /\ Len(dmarc_records_of(txt_records)) = 1
    /\ "v" \in DOMAIN dmarc_parse_tags(dmarc_records_of(txt_records)[1])
    /\ eq_ignore_ascii_case(dmarc_parse_tags(dmarc_records_of(txt_records)[1])["v"], "dmarc1")

\* C12: one DMARC1 record is classified by its p tag, the key lowercased, the
\* part split at its first '=', the value compared whatever its case (of
\* several p tags the last counts): absent Invalid{MissingPolicy}, reject
\* Compliant{Reject}, quarantine Weak{Quarantine, QuarantinePolicy}, none
\* Weak{None, MonitoringPolicy}, anything else Invalid{UnknownPolicy}; and
\* every input has a status.
C12_PolicyTagDecides ==
    auth_pc = "done" =>
        /\ dmarc_status.kind \in {"Missing", "MultipleRecords", "Invalid", "Weak", "Compliant"}
        /\ SingleDmarcRecord =>
              LET rec == dmarc_records_of(txt_records)[1]
                  parts == split(rec, ";")
                  ps == {i \in 1..Len(parts) :
                            /\ trim(parts[i]) # ""
                            /\ to_ascii_lowercase(trim(before(trim(parts[i]), "="))) = "p"}
                  last == CHOOSE i \in ps : \A j \in ps : j <= i
                  value == to_ascii_lowercase(trim(after(trim(parts[last]), "=")))
              IN  IF ps = {}
                  THEN dmarc_status.kind = "Invalid" /\ dmarc_status.detail = "MissingPolicy"
                  ELSE CASE value = "reject" ->
                              /\ dmarc_status.kind = "Compliant"
                              /\ dmarc_status.policy = "Reject"
                         [] value = "quarantine" ->
                              /\ dmarc_status.kind = "Weak"
                              /\ dmarc_status.policy = "Quarantine"
                              /\ dmarc_status.detail = "QuarantinePolicy"
                         [] value = "none" ->
                              /\ dmarc_status.kind = "Weak"
                              /\ dmarc_status.policy = "None"
                              /\ dmarc_status.detail = "MonitoringPolicy"
                         [] OTHER ->
                              /\ dmarc_status.kind = "Invalid"
                              /\ dmarc_status.detail = "UnknownPolicy"

\* a record whose key and value are written in capitals and spaced
C12_Witness ==
    /\ auth_pc = "done"
    /\ txt_records = <<"v=DMARC1; P = Reject ;">>
    /\ dmarc_status = DmarcCompliant("v=DMARC1; P = Reject ;", "Reject")

(***************************************************************************)
(* auth::dkim: parse_tags, policy_status and selector_status.              *)
(***************************************************************************)
\* Option: <<>> is None, <<v>> is Some(v)
None == <<>>
Some(v) == <<v>>

\* ParsedTags
ParsedTags(version, public_key, testing) ==
    [version |-> version, public_key |-> public_key, testing |-> testing]

\* mutant: the t value is compared as a whole
has_testing_flag_whole_value(value) == eq_ignore_ascii_case(trim(value), "y")

\* value.split(',').any(|flag| flag.trim().eq_ignore_ascii_case("y"))
has_testing_flag(value) ==
    \E i \in 1..Len(split(value, ",")) : eq_ignore_ascii_case(trim(split(value, ",")[i]), "y")

\* the loop of parse_tags over the parts
RECURSIVE parse_parts(_, _)
parse_parts(parts, parsed) ==
    IF parts = <<>> THEN parsed
    ELSE IF trim(Head(parts)) = "" THEN parse_parts(Tail(parts), parsed)
    ELSE LET key == tag_key(Head(parts))
             value == tag_value(Head(parts))
         IN  parse_parts(Tail(parts),
                 IF key = "v" THEN [parsed EXCEPT !.version = Some(value)]
                 ELSE IF key = "p" THEN [parsed EXCEPT !.public_key = Some(value)]
                 ELSE IF key = "t" THEN [parsed EXCEPT !.testing = has_testing_flag(value)]
                 ELSE parsed)

dkim_parse_tags(rec) == parse_parts(split(rec, ";"), ParsedTags(None, None, FALSE))

\* the test that makes a record relevant
is_dkim1(rec) ==
    /\ dkim_parse_tags(rec).version # None
    /\ eq_ignore_ascii_case(dkim_parse_tags(rec).version[1], "dkim1")

sanitized_of(records) == [i \in 1..Len(records) |-> trim(records[i])]
relevant_of(records) == SelectSeq(sanitized_of(records), is_dkim1)

\* DkimPolicyStatus
DkimPolicyStatus(kind, rec, testing, issue, count) ==
    [kind |-> kind, record |-> rec, testing |-> testing, issue |-> issue, count |-> count]

policy_not_requested == DkimPolicyStatus("NotRequested", "", FALSE, "", 0)

policy_status(records) ==
    IF records = <<>> THEN DkimPolicyStatus("Missing", "", FALSE, "", 0)
    ELSE IF relevant_of(records) = <<>>
        THEN DkimPolicyStatus("Invalid", sanitized_of(records)[1], FALSE, "InvalidVersion", 0)
    ELSE IF Len(relevant_of(records)) > 1
        THEN DkimPolicyStatus("Invalid", relevant_of(records)[1], FALSE, "MultipleRecords",
                              Len(relevant_of(records)))
    ELSE DkimPolicyStatus("Present", relevant_of(records)[1],
                          dkim_parse_tags(relevant_of(records)[1]).testing, "", 0)

\* DkimSelectorStatus
DkimSelectorStatus(kind, selector, records, rec, issue, count) ==
    [kind |-> kind, selector |-> selector, records |-> records, record |-> rec,
     issue |-> issue, count |-> count]

selector_status(selector, records) ==
    IF records = <<>> THEN DkimSelectorStatus("Missing", selector, <<>>, "", "", 0)
    ELSE IF relevant_of(records) = <<>>
        THEN DkimSelectorStatus("Invalid", selector, sanitized_of(records), "",
                                "InvalidVersion", 0)
    ELSE IF Len(relevant_of(records)) > 1
        THEN DkimSelectorStatus("Invalid", selector, sanitized_of(records), "",
                                "MultipleRecords", Len(relevant_of(records)))
    ELSE LET rec == relevant_of(records)[1]
             parsed == dkim_parse_tags(rec)
             public_key == IF parsed.public_key = None THEN "" ELSE parsed.public_key[1]
         IN  IF public_key = ""
             THEN DkimSelectorStatus("Invalid", selector, sanitized_of(records), "",
                                     "MissingPublicKey", 0)
             ELSE IF parsed.testing
             THEN DkimSelectorStatus("Weak", selector, <<>>, rec, "TestingFlag", 0)
             ELSE DkimSelectorStatus("Compliant", selector, <<>>, rec, "", 0)

DkimPool ==
    {"v=DKIM1; p=MIIB; t=y", "v=DKIM1; p=MIIB", " v=dkim1 ; P=MIIB; T= s , Y ",
     "v=DKIM1; t=y", "v=DKIM1; p=; t=y", "v=DKIM1; p=MIIB; t=y; t=s", "v=DKIM2; p=MIIB",
     "p=MIIB", "v=DKIM1; p=AAAA", "k=rsa"}

DkimInit ==
    /\ \E n \in 0..MaxTxt : txt_records \in Tuples(DkimPool, n)
    /\ auth_pc = "dkim policy"
    /\ AuthStatusesIdle
    /\ AuthCallIdle

PolicyStatus ==
    /\ auth_pc = "dkim policy"
    /\ dkim_policy' = policy_status(txt_records)
    /\ auth_pc' = "dkim selector"
    /\ UNCHANGED <<txt_records, spf_status, dmarc_status, dkim_selector, authCall,
                   outsideAuth>>

SelectorStatus ==
    /\ auth_pc = "dkim selector"
    /\ dkim_selector' = selector_status("default", txt_records)
    /\ auth_pc' = "done"
    /\ UNCHANGED <<txt_records, spf_status, dmarc_status, dkim_policy, authCall,
                   outsideAuth>>

DkimNext ==
    \/ PolicyStatus
    \/ SelectorStatus

DkimCallInit == DkimInit /\ AuthAlone

SpecDkim == DkimCallInit /\ [][DkimNext]_vars

\* the parts of rec whose key is key
PartsWithKey(rec, key) ==
    {i \in 1..Len(split(rec, ";")) :
        /\ trim(split(rec, ";")[i]) # ""
        /\ to_ascii_lowercase(trim(before(trim(split(rec, ";")[i]), "="))) = key}

\* the value of the last part of rec whose key is key, "" when there is none
LastValue(rec, key) ==
    IF PartsWithKey(rec, key) = {} THEN ""
    ELSE LET last == CHOOSE i \in PartsWithKey(rec, key) :
                         \A j \in PartsWithKey(rec, key) : j <= i
         IN  trim(after(trim(split(rec, ";")[last]), "="))

\* the indices of the input records whose version is DKIM1
Dkim1Records ==
    {i \in 1..Len(txt_records) :
        eq_ignore_ascii_case(LastValue(trim(txt_records[i]), "v"), "dkim1")}

\* C13: selector_status gives Missing for no record; Invalid{InvalidVersion}
\* when no record has v=DKIM1; for exactly one DKIM1 record,
\* Invalid{MissingPublicKey} when its p tag is missing or empty, whatever its t
\* tag; otherwise Weak{TestingFlag} iff the t tag (the last one), split at
\* commas, has the token y in either case, and Compliant if not.
C13_SelectorStatus ==
    auth_pc = "done" =>
        IF txt_records = <<>> THEN dkim_selector.kind = "Missing"
        ELSE IF Dkim1Records = {}
            THEN dkim_selector.kind = "Invalid" /\ dkim_selector.issue = "InvalidVersion"
        ELSE Cardinality(Dkim1Records) = 1 =>
            LET rec == trim(txt_records[CHOOSE i \in Dkim1Records : TRUE])
                flags == split(LastValue(rec, "t"), ",")
                testing == \E i \in 1..Len(flags) : to_ascii_lowercase(trim(flags[i])) = "y"
            IN  IF LastValue(rec, "p") = ""
                THEN /\ dkim_selector.kind = "Invalid"
                     /\ dkim_selector.issue = "MissingPublicKey"
                ELSE IF testing
                THEN /\ dkim_selector.kind = "Weak"
                     /\ dkim_selector.issue = "TestingFlag"
                     /\ dkim_selector.record = rec
                ELSE /\ dkim_selector.kind = "Compliant"
                     /\ dkim_selector.record = rec

\* the flag y is the second of two, in capitals and spaced
C13_Witness ==
    /\ auth_pc = "done"
    /\ txt_records = <<" v=dkim1 ; P=MIIB; T= s , Y ">>
    /\ dkim_selector.kind = "Weak"

\* the distinct DKIM1 records of the input, trimmed
DistinctDkim1 == {trim(txt_records[i]) : i \in Dkim1Records}

\* C14: when several records have v=DKIM1, the Invalid{MultipleRecords{count}}
\* of policy_status and of selector_status carries the first record by sort
\* order, and count is the number of distinct records.
C14_MultipleRecordsSortedAndCounted ==
    (auth_pc = "done" /\ Cardinality(Dkim1Records) > 1) =>
        LET first == CHOOSE r \in DistinctDkim1 :
                         \A q \in DistinctDkim1 : q = r \/ str_less(r, q)
        IN  /\ dkim_policy.issue = "MultipleRecords"
            /\ dkim_policy.record = first
            /\ dkim_policy.count = Cardinality(DistinctDkim1)
            /\ dkim_selector.issue = "MultipleRecords"
            /\ dkim_selector.records[1] = first
            /\ dkim_selector.count = Cardinality(DistinctDkim1)

(***************************************************************************)
(* validator::spec: characters.  A text is a sequence of characters; a     *)
(* character is known by its name, and the tables below say what the       *)
(* source's tables and the Unicode data say of it.                         *)
(***************************************************************************)
\* ASCII characters
AsciiChars == {"a", "e", "f", "g", "i", "o", "r", "u", "v", "A", "@", ".", "dquote"}
\* U+0430 and U+0391 (CONFUSABLE_MAP), U+00E9 (DIACRITIC_MAP), U+0301 (a
\* combining mark), U+4E2D (no decomposition), U+FB01 (the ligature fi) and
\* U+00AB (FR_HINT_EXTRA_MAP)
OtherChars == {"cyr_a", "greek_A", "e_acute", "comb_acute", "han_zhong", "lig_fi", "laquo"}

is_ascii(ch) == ch \in AsciiChars

CONFUSABLE_MAP == [ch \in {"cyr_a", "greek_A"} |-> IF ch = "cyr_a" THEN <<"a">> ELSE <<"A">>]
DIACRITIC_MAP == [ch \in {"e_acute"} |-> <<"e">>]
FR_HINT_EXTRA_MAP == [ch \in {"laquo"} |-> <<"dquote">>]

is_combining_mark(ch) == ch = "comb_acute"

\* char::nfkd
nfkd(ch) ==
    CASE ch = "lig_fi" -> <<"f", "i">>
      [] ch = "e_acute" -> <<"e", "comb_acute">>
      [] OTHER -> <<ch>>

\* char::script
script_of(ch) ==
    CASE ch \in {"a", "e", "f", "g", "i", "o", "r", "u", "v", "A", "e_acute", "lig_fi"} -> "Latin"
      [] ch = "cyr_a" -> "Cyrillic"
      [] ch = "greek_A" -> "Greek"
      [] ch = "han_zhong" -> "Han"
      [] ch = "comb_acute" -> "Inherited"
      [] OTHER -> "Common"

\* mutant: every script is a major script, Common and Inherited included
major_script_any(ch) == Some(script_of(ch))

major_script(ch) ==
    IF script_of(ch) \in {"Common", "Inherited", "Unknown"} THEN None ELSE Some(script_of(ch))

ascii_lowercase_char(ch) == IF ch = "A" THEN "a" ELSE ch
ascii_lowercase(text) == [i \in 1..Len(text) |-> ascii_lowercase_char(text[i])]

\* SpecOptions
SpecOptions(diacritics, confusables, mixed, hint, allowlist, confusable_reason,
            mixed_reason, tld_warnings, fr) ==
    [detect_diacritics |-> diacritics, detect_confusables |-> confusables,
     detect_mixed_scripts |-> mixed, ascii_hint |-> hint, allowlist_labels |-> allowlist,
     domain_confusable_reason |-> confusable_reason,
     domain_mixed_scripts_reason |-> mixed_reason,
     confusable_tld_warnings |-> tld_warnings, use_fr_hint_extensions |-> fr]

standard == SpecOptions(TRUE, TRUE, TRUE, TRUE, <<>>, None, None, <<>>, FALSE)

strict ==
    [standard EXCEPT !.domain_confusable_reason = Some("domain label has confusable non-latin")]

fr_fraud ==
    [standard EXCEPT
        !.use_fr_hint_extensions = TRUE,
        !.domain_confusable_reason =
            Some("fr-fraud profile: domain label has confusable non-latin characters"),
        !.domain_mixed_scripts_reason =
            Some("fr-fraud profile: domain uses mixed Unicode scripts"),
        !.confusable_tld_warnings =
            <<[tld |-> <<<<"f", "r">>>>,
               warning |-> "fr-fraud profile: .fr domain with confusable characters detected"],
              [tld |-> <<<<"g", "o", "u", "v">>, <<"f", "r">>>>,
               warning |->
                   "fr-fraud profile: .gouv.fr domain with confusable characters detected"]>>]

\* SpecSegment
Local == [kind |-> "Local", label |-> <<>>]
Label(label) == [kind |-> "Label", label |-> label]

\* SpecFinding
SpecFinding(segment, ch, class) == [segment |-> segment, codepoint |-> ch, class |-> class]

\* SpecCharacters::default
NoCharacters ==
    [has_confusables |-> FALSE, has_diacritics |-> FALSE, has_mixed_scripts |-> FALSE,
     details |-> <<>>, normalized_ascii_hint |-> None]

\* the NFKD decomposition of ch, its ASCII characters that are no combining mark
decomposed(ch) == SelectSeq(nfkd(ch), LAMBDA d : ~is_combining_mark(d) /\ is_ascii(d))

ascii_hint_for_char(ch, opts) ==
    IF is_combining_mark(ch) THEN Some(<<>>)
    ELSE IF ch \in DOMAIN CONFUSABLE_MAP THEN Some(CONFUSABLE_MAP[ch])
    ELSE IF ch \in DOMAIN DIACRITIC_MAP THEN Some(DIACRITIC_MAP[ch])
    ELSE IF opts.use_fr_hint_extensions /\ ch \in DOMAIN FR_HINT_EXTRA_MAP
        THEN Some(FR_HINT_EXTRA_MAP[ch])
    ELSE IF is_ascii(ch) THEN None
    ELSE IF decomposed(ch) = <<>> THEN None
    ELSE Some(decomposed(ch))

\* what process_segment pushes to the buffer for ch
pushed_for(ch, opts) ==
    IF ascii_hint_for_char(ch, opts) # None THEN ascii_hint_for_char(ch, opts)[1] ELSE <<ch>>

\* mutant: the finding is pushed and the flag is left alone
found_confusable_no_flag(chars, segment, ch) ==
    [chars EXCEPT !.details = Append(@, SpecFinding(segment, ch, "Confusable"))]

\* the three places of process_segment where a finding is pushed
found_confusable(chars, segment, ch) ==
    [chars EXCEPT !.has_confusables = TRUE,
                  !.details = Append(@, SpecFinding(segment, ch, "Confusable"))]

found_diacritic(chars, segment, ch) ==
    [chars EXCEPT !.has_diacritics = TRUE,
                  !.details = Append(@, SpecFinding(segment, ch, "Diacritic"))]

found_mixed_script(chars, segment, ch) ==
    [chars EXCEPT !.has_mixed_scripts = TRUE,
                  !.details = Append(@, SpecFinding(segment, ch, "MixedScript"))]


\* ------------------------------------------------------------------------
\* validator::spec::analyze_spec_characters and SpecComputation::apply_policy.
\* A text is a sequence of characters, a domain the sequence of its labels
\* (the empty sequence is the empty domain), a buffer an Option of a text.
\* ------------------------------------------------------------------------
MaxLabels == 2

Range(seq) == {seq[i] : i \in 1..Len(seq)}

LocalPool ==
    {<<>>, <<"a">>, <<"a", "cyr_a">>, <<"e_acute", "comb_acute">>, <<"han_zhong", "lig_fi">>,
     <<"laquo", "a">>, <<"cyr_a", "a", "han_zhong">>, <<"comb_acute", "A", "cyr_a">>}

LabelPool ==
    {<<"a">>, <<"cyr_a", "a">>, <<"A", "e_acute">>, <<"f", "r">>, <<"greek_A">>,
     <<"comb_acute">>}

DomainPool == UNION {[1..n -> LabelPool] : n \in 0..MaxLabels}

OptionsPool ==
    {standard, strict, fr_fraud,
     [strict EXCEPT !.detect_confusables = FALSE],
     [standard EXCEPT !.detect_diacritics = FALSE],
     [fr_fraud EXCEPT !.detect_mixed_scripts = FALSE],
     [fr_fraud EXCEPT !.ascii_hint = FALSE],
     [strict EXCEPT !.allowlist_labels = <<<<"cyr_a", "A">>>>],
     [strict EXCEPT !.domain_confusable_reason = Some("invalid local part (strict rules)")]}

\* the reasons validate_email_with_spec has pushed before apply_policy
ReasonsPool == {<<>>, <<"invalid local part (strict rules)">>}

spec_options == sc_input.options

\* SegmentResult::default and the locals of process_segment
NewScan(seg) ==
    [seg |-> seg, pos |-> 1, result |-> [confusable |-> FALSE, mixed_scripts |-> FALSE],
     primary_script |-> None, mixed_reported |-> FALSE]

\* SpecComputation::default
NoComputation ==
    [characters |-> NoCharacters, confusable_labels_for_policy |-> <<>>,
     mixed_labels_for_policy |-> <<>>]

CharsInit ==
    /\ sc_input \in [local : LocalPool, labels : DomainPool, options : OptionsPool,
                     reasons : ReasonsPool]
    /\ sc_pc = "scan"
    /\ scan = NewScan(0)
    /\ ascii_local = IF spec_options.ascii_hint THEN Some(<<>>) ELSE None
    /\ ascii_domain = IF spec_options.ascii_hint THEN Some(<<>>) ELSE None
    /\ computation = NoComputation
    /\ reasons = sc_input.reasons

CharsFixed == <<sc_input, outsideChars>>

\* the segment under process_segment: 0 is the local part, k the k-th label
SegmentText == IF scan.seg = 0 THEN sc_input.local ELSE sc_input.labels[scan.seg]
Segment == IF scan.seg = 0 THEN Local ELSE Label(sc_input.labels[scan.seg])

push_str(buf, text) == IF buf = None THEN None ELSE Some(buf[1] \o text)

\* one turn of the loop of process_segment
ScanChar ==
    /\ sc_pc = "scan"
    /\ scan.pos <= Len(SegmentText)
    /\ LET ch == SegmentText[scan.pos]
           confusable == spec_options.detect_confusables /\ ch \in DOMAIN CONFUSABLE_MAP
           diacritic ==
               spec_options.detect_diacritics /\ (ch \in DOMAIN DIACRITIC_MAP \/ is_combining_mark(ch))
           script == major_script(ch)
           scripted == spec_options.detect_mixed_scripts /\ script # None
           mixed ==
               /\ scripted
               /\ scan.primary_script # None
               /\ script # scan.primary_script
               /\ ~scan.mixed_reported
           c1 == IF confusable THEN found_confusable(computation.characters, Segment, ch)
                 ELSE computation.characters
           c2 == IF diacritic THEN found_diacritic(c1, Segment, ch) ELSE c1
           c3 == IF mixed THEN found_mixed_script(c2, Segment, ch) ELSE c2
       IN  /\ computation' = [computation EXCEPT !.characters = c3]
           /\ scan' = [scan EXCEPT
                  !.pos = @ + 1,
                  !.result = [confusable |-> @.confusable \/ confusable,
                              mixed_scripts |-> @.mixed_scripts \/ mixed],
                  !.mixed_reported = @ \/ mixed,
                  !.primary_script = IF scripted /\ @ = None THEN script ELSE @]
           /\ IF scan.seg = 0
              THEN /\ ascii_local' = push_str(ascii_local, pushed_for(ch, spec_options))
                   /\ UNCHANGED ascii_domain
              ELSE /\ ascii_domain' = push_str(ascii_domain, pushed_for(ch, spec_options))
                   /\ UNCHANGED ascii_local
    /\ UNCHANGED <<sc_pc, reasons, CharsFixed>>

\* the bookkeeping of analyze_spec_characters after a label was processed
label_policy(comp, label, result) ==
    LET label_lower == ascii_lowercase(label)
        allowlist == {ascii_lowercase(l) : l \in Range(spec_options.allowlist_labels)}
        allowlisted == label_lower \in allowlist
    IN  [comp EXCEPT
            !.confusable_labels_for_policy =
                IF result.confusable /\ ~allowlisted /\ label_lower \notin Range(@)
                THEN Append(@, label_lower) ELSE @,
            !.mixed_labels_for_policy =
                IF result.mixed_scripts /\ ~allowlisted /\ label_lower \notin Range(@)
                THEN Append(@, label_lower) ELSE @]

\* process_segment returns: the label is recorded and the next label starts
EndSegment ==
    /\ sc_pc = "scan"
    /\ scan.pos > Len(SegmentText)
    /\ computation' = IF scan.seg = 0 THEN computation
                      ELSE label_policy(computation, sc_input.labels[scan.seg], scan.result)
    /\ IF scan.seg < Len(sc_input.labels)
       THEN /\ scan' = NewScan(scan.seg + 1)
            /\ ascii_domain' = IF ascii_domain # None /\ ascii_domain[1] # <<>>
                               THEN push_str(ascii_domain, <<".">>) ELSE ascii_domain
            /\ UNCHANGED sc_pc
       ELSE /\ sc_pc' = "hint"
            /\ UNCHANGED <<scan, ascii_domain>>
    /\ UNCHANGED <<ascii_local, reasons, CharsFixed>>

RECURSIVE domain_text(_, _)
domain_text(labels, i) ==
    IF i > Len(labels) THEN <<>>
    ELSE IF i = Len(labels) THEN labels[i]
    ELSE labels[i] \o <<".">> \o domain_text(labels, i + 1)

\* the match of analyze_spec_characters that assembles the hint
assemble_hint(local_hint, domain_hint, local, labels) ==
    CASE local_hint # None /\ domain_hint # None /\ domain_hint[1] # <<>> ->
             Some(local_hint[1] \o <<"@">> \o domain_hint[1])
      [] local_hint # None /\ domain_hint # None /\ domain_hint[1] = <<>> /\ labels = <<>> ->
             local_hint
      [] local_hint # None /\ domain_hint = None /\ labels # <<>> ->
             Some(local_hint[1] \o <<"@">> \o ascii_lowercase(domain_text(labels, 1)))
      [] local_hint # None /\ domain_hint = None /\ labels = <<>> -> local_hint
      [] local_hint = None /\ domain_hint # None /\ domain_hint[1] # <<>> ->
             IF local = <<>> THEN domain_hint ELSE Some(local \o <<"@">> \o domain_hint[1])
      [] OTHER -> None

\* the end of analyze_spec_characters
AssembleHint ==
    /\ sc_pc = "hint"
    /\ LET dom_hint == IF ascii_domain = None THEN None ELSE Some(ascii_lowercase(ascii_domain[1]))
       IN  /\ ascii_domain' = dom_hint
           /\ computation' =
                  IF spec_options.ascii_hint
                  THEN [computation EXCEPT !.characters.normalized_ascii_hint =
                            assemble_hint(ascii_local, dom_hint, sc_input.local, sc_input.labels)]
                  ELSE computation
    /\ sc_pc' = "policy"
    /\ UNCHANGED <<scan, ascii_local, reasons, CharsFixed>>

\* domain_matches_tld on the labels of the lowercased domain
domain_matches_tld(domain, tld) ==
    /\ tld # <<>>
    /\ Len(domain) >= Len(tld)
    /\ SubSeq(domain, Len(domain) - Len(tld) + 1, Len(domain)) = tld

push_new(list, reason) == IF reason \in Range(list) THEN list ELSE Append(list, reason)

RECURSIVE tld_warnings(_, _, _, _)
tld_warnings(list, domain_lower, warnings, i) ==
    IF i > Len(warnings) THEN list
    ELSE tld_warnings(IF domain_matches_tld(domain_lower, warnings[i].tld)
                      THEN push_new(list, warnings[i].warning) ELSE list,
                      domain_lower, warnings, i + 1)

\* mutant: every confusable finding counts, the local part's included
apply_policy_any_finding(comp, o, labels, list) ==
    IF o.domain_confusable_reason # None /\ comp.characters.has_confusables
    THEN push_new(list, o.domain_confusable_reason[1]) ELSE list

apply_policy(comp, o, labels, list) ==
    LET domain_lower == [i \in 1..Len(labels) |-> ascii_lowercase(labels[i])]
        r1 == IF o.domain_confusable_reason # None
                 /\ comp.confusable_labels_for_policy # <<>>
              THEN push_new(list, o.domain_confusable_reason[1]) ELSE list
        r2 == IF comp.confusable_labels_for_policy # <<>>
              THEN tld_warnings(r1, domain_lower, o.confusable_tld_warnings, 1) ELSE r1
    IN  IF o.domain_mixed_scripts_reason # None /\ comp.mixed_labels_for_policy # <<>>
        THEN push_new(r2, o.domain_mixed_scripts_reason[1]) ELSE r2

\* validate_email_with_spec applies the policy to the reasons it has
ApplyPolicy ==
    /\ sc_pc = "policy"
    /\ reasons' = apply_policy(computation, spec_options, sc_input.labels, reasons)
    /\ sc_pc' = "done"
    /\ UNCHANGED <<scan, ascii_local, ascii_domain, computation, CharsFixed>>

CharsNext == ScanChar \/ EndSegment \/ AssembleHint \/ ApplyPolicy

CharsCallInit == CharsInit /\ CharsAlone

SpecChars == CharsCallInit /\ [][CharsNext]_vars


HasFinding(class) ==
    \E i \in 1..Len(computation.characters.details) :
        computation.characters.details[i].class = class

\* C15: at every step of the scan and in the SpecCharacters returned,
\* has_confusables is true iff details holds a finding of class Confusable,
\* has_diacritics iff one of class Diacritic, has_mixed_scripts iff one of
\* class MixedScript: a flag and its finding are set and appended together.
C15_FlagsMatchFindings ==
    sc_pc # "idle" =>
        /\ computation.characters.has_confusables <=> HasFinding("Confusable")
        /\ computation.characters.has_diacritics <=> HasFinding("Diacritic")
        /\ computation.characters.has_mixed_scripts <=> HasFinding("MixedScript")

\* an analysis has returned with two flags set and the third clear
C15_Witness ==
    /\ sc_pc = "done"
    /\ computation.characters.has_confusables
    /\ computation.characters.has_mixed_scripts
    /\ ~computation.characters.has_diacritics
    /\ Len(computation.characters.details) >= 3


\* C16: with ascii_hint enabled every character of the normalized_ascii_hint
\* returned by analyze_spec_characters is ASCII: a character without
\* replacement, not ASCII and without ASCII decomposition adds nothing.
C16_HintIsAscii ==
    (sc_pc \in {"policy", "done"} /\ spec_options.ascii_hint
        /\ computation.characters.normalized_ascii_hint # None) =>
            \A ch \in Range(computation.characters.normalized_ascii_hint[1]) : is_ascii(ch)


Count(list, reason) == Cardinality({i \in 1..Len(list) : list[i] = reason})

\* a domain label outside allowlist_labels (both lowercased) holds a
\* character of CONFUSABLE_MAP
ConfusableLabelOutsideAllowlist ==
    \E i \in 1..Len(sc_input.labels) :
        /\ ascii_lowercase(sc_input.labels[i]) \notin
               {ascii_lowercase(l) : l \in Range(spec_options.allowlist_labels)}
        /\ \E ch \in Range(sc_input.labels[i]) : ch \in DOMAIN CONFUSABLE_MAP

\* domain_confusable_reason occurs once more than before apply_policy
\* exactly when Condition holds, and as often as before otherwise
ConfusableReasonAppendedIff(Condition) ==
    spec_options.domain_confusable_reason # None =>
        Count(reasons, spec_options.domain_confusable_reason[1]) =
            Count(sc_input.reasons, spec_options.domain_confusable_reason[1])
                + (IF Condition THEN 1 ELSE 0)

FindingsOnlyInLocal ==
    \A i \in 1..Len(computation.characters.details) :
        computation.characters.details[i].segment = Local

LocalFindingsAddNoReason ==
    FindingsOnlyInLocal => reasons = sc_input.reasons

\* C17 as stated: apply_policy appends domain_confusable_reason iff it is
\* configured, a domain label outside allowlist_labels (compared lowercased)
\* contains a confusable character and the reason is not yet in the list;
\* findings only in the local part add no reason.
C17_ReasonIffConfusableCharacter ==
    sc_pc = "done" =>
        /\ ConfusableReasonAppendedIff(
               /\ ConfusableLabelOutsideAllowlist
               /\ spec_options.domain_confusable_reason[1] \notin Range(sc_input.reasons))
        /\ LocalFindingsAddNoReason

\* C17 amended: the same with detect_confusables on as a further condition,
\* since only a detected confusable character is a finding of its label.
C17_ReasonIffConfusableFinding ==
    sc_pc = "done" =>
        /\ ConfusableReasonAppendedIff(
               /\ spec_options.detect_confusables
               /\ ConfusableLabelOutsideAllowlist
               /\ spec_options.domain_confusable_reason[1] \notin Range(sc_input.reasons))
        /\ LocalFindingsAddNoReason

\* the reason was appended for a label outside a non-empty allowlist while
\* another label with a confusable character is allowlisted and the local
\* part has findings of its own
C17_Witness ==
    /\ sc_pc = "done"
    /\ spec_options.allowlist_labels # <<>>
    /\ \E i \in 1..Len(sc_input.labels) :
           ascii_lowercase(sc_input.labels[i]) \in
               {ascii_lowercase(l) : l \in Range(spec_options.allowlist_labels)}
    /\ \E i \in 1..Len(computation.characters.details) :
           computation.characters.details[i].segment = Local
    /\ Count(reasons, spec_options.domain_confusable_reason[1]) = 1
    /\ Count(sc_input.reasons, spec_options.domain_confusable_reason[1]) = 0


\* ------------------------------------------------------------------------
\* auth::check_with_resolver: the TXT lookups of one call, in order.
\* ------------------------------------------------------------------------
MaxSelectors == 2

AsciiDomain == "example.com"

SelectorPool == {"s1", "k2", "default"}

\* the selector lists AuthLookupOptions can hold: normalized, no duplicate
SelectorLists ==
    UNION {{l \in [1..n -> SelectorPool] : \A i, j \in 1..n : l[i] = l[j] => i = j} :
              n \in 0..MaxSelectors}

RECURSIVE trim_end_dots(_)
\* str::trim_end_matches('.')
trim_end_dots(s) ==
    IF s # "" /\ CharAt(s, Len(s)) = "." THEN trim_end_dots(SubSeq(s, 1, Len(s) - 1)) ELSE s

\* resolver::fqdn
fqdn(label, domain) ==
    IF trim_end_dots(trim(label)) = "" THEN domain
    ELSE to_ascii_lowercase(trim_end_dots(trim(label))) \o "." \o domain

\* Result<_, AuthError>
Ok(value) == [kind |-> "Ok", value |-> value]
Err(error) == [kind |-> "Err", error |-> error]

\* AuthError::txt_lookup
TxtLookupError(name) == [kind |-> "TxtLookup", name |-> name]

\* what LookupTxt::lookup_txt may return for a name
LookupOutcomes(name, found) == {Ok(<<>>), Ok(<<found>>), Err(TxtLookupError(name))}

\* dkim::assemble_status
assemble_status(policy, selectors) == [policy |-> policy, selectors |-> selectors]

\* AuthStatus::new
AuthStatus(domain, spf, dmarc, dkim) ==
    [domain |-> domain, spf |-> spf, dmarc |-> dmarc, dkim |-> dkim]

AuthInit ==
    /\ auth_options \in [dkim_selectors : SelectorLists, check_dkim_policy : BOOLEAN]
    /\ txt_records = <<>>
    /\ auth_pc = "spf lookup"
    /\ AuthStatusesIdle
    /\ lookups = <<>>
    /\ selector_statuses = <<>>
    /\ selector_inputs = <<>>
    /\ auth_result = <<>>

\* the `?` after lookup_txt: an error is what the call returns
Returns(outcome) ==
    /\ auth_pc' = "done"
    /\ auth_result' = outcome

\* mutant: the policy record is looked up whatever the option says
after_dmarc_always_policy(opts) == "dkim policy lookup"

\* where the call goes after the DMARC evaluation
after_dmarc(opts) ==
    IF opts.check_dkim_policy THEN "dkim policy lookup" ELSE "dkim policy not requested"

LookupSpf ==
    /\ auth_pc = "spf lookup"
    /\ lookups' = Append(lookups, AsciiDomain)
    /\ \E outcome \in LookupOutcomes(AsciiDomain, "v=spf1 -all") :
           IF outcome.kind = "Err"
           THEN /\ Returns(outcome)
                /\ UNCHANGED <<txt_records, spf_status>>
           ELSE /\ txt_records' = outcome.value
                /\ spf_status' = evaluate(outcome.value)
                /\ auth_pc' = "dmarc lookup"
                /\ UNCHANGED auth_result
    /\ UNCHANGED <<dmarc_status, dkim_policy, dkim_selector, auth_options,
                   selector_statuses, selector_inputs, outsideAuth>>

LookupDmarc ==
    /\ auth_pc = "dmarc lookup"
    /\ lookups' = Append(lookups, fqdn("_dmarc", AsciiDomain))
    /\ \E outcome \in LookupOutcomes(fqdn("_dmarc", AsciiDomain), "v=DMARC1; p=reject") :
           IF outcome.kind = "Err"
           THEN /\ Returns(outcome)
                /\ UNCHANGED <<txt_records, dmarc_status>>
           ELSE /\ txt_records' = outcome.value
                /\ dmarc_status' = dmarc_evaluate(outcome.value)
                /\ auth_pc' = after_dmarc(auth_options)
                /\ UNCHANGED auth_result
    /\ UNCHANGED <<spf_status, dkim_policy, dkim_selector, auth_options,
                   selector_statuses, selector_inputs, outsideAuth>>

LookupDkimPolicy ==
    /\ auth_pc = "dkim policy lookup"
    /\ lookups' = Append(lookups, fqdn("_domainkey", AsciiDomain))
    /\ \E outcome \in LookupOutcomes(fqdn("_domainkey", AsciiDomain), "v=DKIM1; t=y") :
           IF outcome.kind = "Err"
           THEN /\ Returns(outcome)
                /\ UNCHANGED <<txt_records, dkim_policy>>
           ELSE /\ txt_records' = outcome.value
                /\ dkim_policy' = policy_status(outcome.value)
                /\ auth_pc' = "selectors"
                /\ UNCHANGED auth_result
    /\ UNCHANGED <<spf_status, dmarc_status, dkim_selector, auth_options,
                   selector_statuses, selector_inputs, outsideAuth>>

DkimPolicyNotRequested ==
    /\ auth_pc = "dkim policy not requested"
    /\ dkim_policy' = policy_not_requested
    /\ auth_pc' = "selectors"
    /\ UNCHANGED <<txt_records, spf_status, dmarc_status, dkim_selector, authCall,
                   outsideAuth>>

selector_name(selector) == fqdn(selector \o "._domainkey", AsciiDomain)

\* one turn of the loop over options.dkim_selectors()
LookupSelector ==
    /\ auth_pc = "selectors"
    /\ Len(selector_statuses) < Len(auth_options.dkim_selectors)
    /\ LET selector == auth_options.dkim_selectors[Len(selector_statuses) + 1] IN
       /\ lookups' = Append(lookups, selector_name(selector))
       /\ \E outcome \in LookupOutcomes(selector_name(selector), "v=DKIM1; p=MIIB") :
              IF outcome.kind = "Err"
              THEN /\ Returns(outcome)
                   /\ UNCHANGED <<txt_records, dkim_selector, selector_statuses>>
              ELSE /\ txt_records' = outcome.value
                   /\ dkim_selector' = selector_status(selector, outcome.value)
                   /\ selector_statuses' =
                          Append(selector_statuses, selector_status(selector, outcome.value))
                   /\ UNCHANGED <<auth_pc, auth_result>>
    /\ UNCHANGED <<spf_status, dmarc_status, dkim_policy, auth_options, selector_inputs,
                   outsideAuth>>

\* the loop is over: Ok(AuthStatus::new(..))
ReturnAuthStatus ==
    /\ auth_pc = "selectors"
    /\ Len(selector_statuses) = Len(auth_options.dkim_selectors)
    /\ Returns(Ok(AuthStatus(AsciiDomain, spf_status, dmarc_status,
                             assemble_status(dkim_policy, selector_statuses))))
    /\ UNCHANGED <<txt_records, authStatuses, auth_options, lookups, selector_statuses,
                   selector_inputs, outsideAuth>>

AuthNext ==
    \/ LookupSpf
    \/ LookupDmarc
    \/ LookupDkimPolicy
    \/ DkimPolicyNotRequested
    \/ LookupSelector
    \/ ReturnAuthStatus

AuthCallInit == AuthInit /\ AuthAlone

SpecAuth == AuthCallInit /\ [][AuthNext]_vars

\* the names a call with these options looks up when no lookup fails
LookupOrder ==
    <<AsciiDomain, "_dmarc." \o AsciiDomain>>
        \o (IF auth_options.check_dkim_policy THEN <<"_domainkey." \o AsciiDomain>> ELSE <<>>)
        \o [i \in 1..Len(auth_options.dkim_selectors) |->
               auth_options.dkim_selectors[i] \o "._domainkey." \o AsciiDomain]

\* C18: the lookups are made in the order domain, _dmarc.<domain>,
\* _domainkey.<domain> (only with check_dkim_policy on; else the policy is
\* NotRequested and the name is never queried), <selector>._domainkey.<domain>
\* per selector in option order. A failed lookup is the last one and its
\* error is what the call returns, with no AuthStatus; a successful call has
\* one selector status per configured selector, in the same order.
C18_LookupOrderAndFirstErrorReturned ==
    auth_pc # "idle" =>
        /\ Len(lookups) <= Len(LookupOrder)
        /\ lookups = SubSeq(LookupOrder, 1, Len(lookups))
        /\ auth_result # <<>> => auth_pc = "done"
        /\ (auth_pc = "done" /\ auth_result.kind = "Err") =>
               /\ lookups # <<>>
               /\ auth_result = Err(TxtLookupError(lookups[Len(lookups)]))
        /\ (auth_pc = "done" /\ auth_result.kind = "Ok") =>
               /\ lookups = LookupOrder
               /\ Len(auth_result.value.dkim.selectors) = Len(auth_options.dkim_selectors)
               /\ \A i \in 1..Len(auth_options.dkim_selectors) :
                      auth_result.value.dkim.selectors[i].selector
                          = auth_options.dkim_selectors[i]
               /\ ~auth_options.check_dkim_policy =>
                      auth_result.value.dkim.policy = policy_not_requested

\* the lookup of the second selector failed, with the policy not requested
C18_Witness ==
    /\ auth_pc = "done"
    /\ auth_result.kind = "Err"
    /\ ~auth_options.check_dkim_policy
    /\ Len(lookups) = 4
    /\ Len(selector_statuses) = 1
    /\ auth_result.error.name = auth_options.dkim_selectors[2] \o "._domainkey." \o AsciiDomain


\* ------------------------------------------------------------------------
\* smtp_verify::dns::resolve_hosts and the loop of check_mailaddress_exists
\* over the candidates it returns.
\* ------------------------------------------------------------------------
MaxMx == 3

ProbedDomain == "example.com"

\* HostCandidate
HostCandidate(name, preference, addresses) ==
    [host |-> name, preference |-> preference, addresses |-> addresses]

\* the MX records of an answer: the exchange, its preference, and what
\* resolve_addrs gives for it (an error, or the addresses kept)
MxAnswerPool ==
    {[exchange |-> "mx1", preference |-> 10, addrs |-> Ok(<<"192.0.2.1">>)],
     [exchange |-> "mx2", preference |-> 5, addrs |-> Ok(<<"192.0.2.2", "192.0.2.3">>)],
     [exchange |-> "mx3", preference |-> 10, addrs |-> Ok(<<"192.0.2.4">>)],
     [exchange |-> "mx4", preference |-> 20, addrs |-> Ok(<<>>)],
     [exchange |-> "mx5", preference |-> 5, addrs |-> Err("Io")]}

\* resolver.mx_lookup: the records, NoRecordsFound or another error
MxLookups ==
    {[kind |-> "Ok", records |-> r] : r \in UNION {Tuples(MxAnswerPool, n) : n \in 1..MaxMx}}
        \cup {[kind |-> "NoRecordsFound", records |-> <<>>],
              [kind |-> "OtherError", records |-> <<>>]}

ResolveInit ==
    /\ dns \in [mx : MxLookups,
              domain_addrs : {Ok(<<>>), Ok(<<"192.0.2.9">>), Err("Io")}]
    /\ max_hosts \in 0..MaxMx
    /\ rs_pc = "lookup_mx"
    /\ candidates = <<>>
    /\ rs_result = <<>>
    /\ contacted = <<>>

ResolveFixed == <<dns, max_hosts, outsideResolve>>

\* resolve_hosts returns
ResolveReturns(result) ==
    /\ rs_result' = result
    /\ rs_pc' = IF result.kind = "Ok" THEN "probe" ELSE "done"

RECURSIVE lookup_records(_, _)
\* the loop of lookup_mx over the records: a record without address is
\* skipped, an error of resolve_addrs is returned
lookup_records(records, out) ==
    IF records = <<>> THEN Ok(out)
    ELSE IF Head(records).addrs.kind = "Err" THEN Head(records).addrs
    ELSE IF Head(records).addrs.value = <<>> THEN lookup_records(Tail(records), out)
    ELSE lookup_records(Tail(records),
                        Append(out, HostCandidate(Head(records).exchange,
                                                  Head(records).preference,
                                                  Head(records).addrs.value)))

lookup_mx(answer) ==
    CASE answer.kind = "Ok" -> lookup_records(answer.records, <<>>)
      [] answer.kind = "NoRecordsFound" -> Ok(<<>>)
      [] OTHER -> Err("Lookup")

RECURSIVE insert_by_preference(_, _)
\* h goes after the candidates of a preference not above its own
insert_by_preference(sorted, h) ==
    IF sorted = <<>> THEN <<h>>
    ELSE IF Head(sorted).preference <= h.preference
         THEN <<Head(sorted)>> \o insert_by_preference(Tail(sorted), h)
         ELSE <<h>> \o sorted

RECURSIVE sort_by_preference(_)
\* hosts.sort_by_key(|h| h.preference), a stable sort
sort_by_preference(list) ==
    IF list = <<>> THEN <<>>
    ELSE insert_by_preference(sort_by_preference(SubSeq(list, 1, Len(list) - 1)),
                              list[Len(list)])

Max(a, b) == IF a >= b THEN a ELSE b

\* Vec::truncate
truncate(list, len) == SubSeq(list, 1, Min(len, Len(list)))

\* let mut hosts = lookup_mx(..)?
LookupMx ==
    /\ rs_pc = "lookup_mx"
    /\ IF lookup_mx(dns.mx).kind = "Err"
       THEN /\ ResolveReturns(lookup_mx(dns.mx))
            /\ UNCHANGED candidates
       ELSE /\ candidates' = lookup_mx(dns.mx).value
            /\ rs_pc' = IF lookup_mx(dns.mx).value = <<>> THEN "implicit mx" ELSE "sort"
            /\ UNCHANGED rs_result
    /\ UNCHANGED <<contacted, ResolveFixed>>

\* no host: the addresses of the domain itself, at preference 0
ImplicitMx ==
    /\ rs_pc = "implicit mx"
    /\ IF dns.domain_addrs.kind = "Err"
       THEN /\ ResolveReturns(dns.domain_addrs)
            /\ UNCHANGED candidates
       ELSE IF dns.domain_addrs.value = <<>>
       THEN /\ ResolveReturns(Err("NoSmtpServers"))
            /\ UNCHANGED candidates
       ELSE /\ candidates' = Append(candidates,
                                    HostCandidate(ProbedDomain, 0, dns.domain_addrs.value))
            /\ rs_pc' = "sort"
            /\ UNCHANGED rs_result
    /\ UNCHANGED <<contacted, ResolveFixed>>

\* sort_by_key, truncate, Ok(hosts)
SortAndTruncate ==
    /\ rs_pc = "sort"
    /\ candidates' = truncate(sort_by_preference(candidates), Max(max_hosts, 1))
    /\ ResolveReturns(Ok(truncate(sort_by_preference(candidates), Max(max_hosts, 1))))
    /\ UNCHANGED <<contacted, ResolveFixed>>

\* check_mailaddress_exists: one turn of `for candidate in hosts`; the call
\* returns when probe_host gives a final verdict or no candidate is left
ProbeCandidate ==
    /\ rs_pc = "probe"
    /\ Len(contacted) < Len(candidates)
    /\ contacted' = Append(contacted, candidates[Len(contacted) + 1].host)
    /\ \E final \in BOOLEAN :
           rs_pc' = IF final \/ Len(contacted) + 1 = Len(candidates) THEN "done" ELSE "probe"
    /\ UNCHANGED <<candidates, rs_result, ResolveFixed>>

ResolveNext ==
    \/ LookupMx
    \/ ImplicitMx
    \/ SortAndTruncate
    \/ ProbeCandidate

ResolveCallInit == ResolveInit /\ ResolveAlone

SpecResolve == ResolveCallInit /\ [][ResolveNext]_vars

\* C19: resolve_hosts returns the candidates in ascending preference order
\* and never more than max_mx of them, so no more than max_mx hosts are
\* contacted; without MX host the one candidate is the domain at preference
\* 0, and with no address at all the call fails with NoSmtpServers before
\* any host is contacted.
C19_AtMostMaxMxHostsInPreferenceOrder ==
    /\ (rs_result # <<>> /\ rs_result.kind = "Ok") =>
           /\ \A i, j \in 1..Len(rs_result.value) :
                  i < j => rs_result.value[i].preference <= rs_result.value[j].preference
           /\ Len(rs_result.value) <= max_hosts
           /\ lookup_mx(dns.mx).value = <<>> =>
                  rs_result.value
                      = <<HostCandidate(ProbedDomain, 0, dns.domain_addrs.value)>>
    /\ Len(contacted) <= max_hosts
    /\ (rs_pc = "done" /\ lookup_mx(dns.mx) = Ok(<<>>) /\ dns.domain_addrs = Ok(<<>>)) =>
           /\ rs_result = Err("NoSmtpServers")
           /\ contacted = <<>>


\* ------------------------------------------------------------------------
\* auth::types::AuthLookupOptions: the builder of the selector list.
\* ------------------------------------------------------------------------
MaxCalls == 3

RawSelectors == {"s1", " S1. ", "s1 .", "k2..", ".", "", "K2", "\tk2 "}

\* types::normalize_selector
normalize_selector(input) ==
    IF trim_end_dots(trim(input)) = "" THEN None
    ELSE Some(to_ascii_lowercase(trim_end_dots(trim(input))))

\* AuthLookupOptions::with_dkim_selector, on the list
with_dkim_selector(selectors, input) ==
    IF normalize_selector(input) # None /\ normalize_selector(input)[1] \notin Range(selectors)
    THEN Append(selectors, normalize_selector(input)[1])
    ELSE selectors

RECURSIVE with_dkim_selectors(_, _)
\* AuthLookupOptions::with_dkim_selectors, on the list
with_dkim_selectors(selectors, inputs) ==
    IF inputs = <<>> THEN selectors
    ELSE with_dkim_selectors(with_dkim_selector(selectors, Head(inputs)), Tail(inputs))

\* AuthLookupOptions::new
OptionsInit ==
    /\ auth_options = [dkim_selectors |-> <<>>, check_dkim_policy |-> TRUE]
    /\ auth_pc = "options"
    /\ txt_records = <<>>
    /\ AuthStatusesIdle
    /\ lookups = <<>>
    /\ selector_statuses = <<>>
    /\ selector_inputs = <<>>
    /\ auth_result = <<>>

OptionsFixed ==
    <<txt_records, auth_pc, authStatuses, lookups, selector_statuses, auth_result, outsideAuth>>

WithDkimSelector ==
    /\ auth_pc = "options"
    /\ Len(selector_inputs) < MaxCalls
    /\ \E input \in RawSelectors :
           /\ auth_options' = [auth_options EXCEPT
                  !.dkim_selectors = with_dkim_selector(@, input)]
           /\ selector_inputs' = Append(selector_inputs, input)
    /\ UNCHANGED OptionsFixed

WithDkimSelectors ==
    /\ auth_pc = "options"
    /\ \E n \in {0, 2} : \E inputs \in Tuples(RawSelectors, n) :
           /\ Len(selector_inputs) + n <= MaxCalls
           /\ auth_options' = [auth_options EXCEPT
                  !.dkim_selectors = with_dkim_selectors(@, inputs)]
           /\ selector_inputs' = selector_inputs \o inputs
    /\ UNCHANGED OptionsFixed

CheckPolicyRecord ==
    /\ auth_pc = "options"
    /\ \E value \in BOOLEAN :
           auth_options' = [auth_options EXCEPT !.check_dkim_policy = value]
    /\ UNCHANGED <<selector_inputs, OptionsFixed>>

OptionsNext ==
    \/ WithDkimSelector
    \/ WithDkimSelectors
    \/ CheckPolicyRecord

OptionsCallInit == OptionsInit /\ AuthAlone

SpecOptionsBuilder == OptionsCallInit /\ [][OptionsNext]_vars

RECURSIVE first_insertions(_, _)
\* the distinct non-empty normalized forms of inputs, by first occurrence
first_insertions(inputs, seen) ==
    IF inputs = <<>> THEN seen
    ELSE first_insertions(Tail(inputs),
             IF normalize_selector(Head(inputs)) = None
                \/ normalize_selector(Head(inputs))[1] \in Range(seen)
             THEN seen ELSE Append(seen, normalize_selector(Head(inputs))[1]))

\* C20: after any sequence of with_dkim_selector / with_dkim_selectors
\* calls, dkim_selectors has no duplicate and no empty entry, every entry is
\* lowercase, without leading or trailing whitespace and without trailing
\* dot, in first-insertion order; a selector whose normalized form is
\* present changes nothing.
C20_SelectorsNormalized ==
    auth_pc = "options" =>
        /\ \A i, j \in 1..Len(auth_options.dkim_selectors) :
               auth_options.dkim_selectors[i] = auth_options.dkim_selectors[j] => i = j
        /\ \A i \in 1..Len(auth_options.dkim_selectors) :
               LET entry == auth_options.dkim_selectors[i] IN
               /\ entry # ""
               /\ entry = to_ascii_lowercase(entry)
               /\ entry = trim(entry)
               /\ CharAt(entry, Len(entry)) # "."
        /\ auth_options.dkim_selectors = first_insertions(selector_inputs, <<>>)


\* what went over the sockets of host h, in order
HostWire(h) == SelectSeq(wire, LAMBDA l : l.host = h)

\* the codes of the replies host h gave to EHLO
EhloReplyCodes(h) == {wire[k + 1].code : k \in Answered(h, {"EHLO"})}

EnvelopeCommands == {"MAIL FROM", TargetRcpt} \cup AliasRcpts

\* the commands sent to host h
CommandsTo(h) == CommandsAfter(h, 0)

\* C21: MAIL FROM and RCPT TO are sent to a host only after a 2xx banner and
\* a 2xx reply to EHLO: a non-2xx banner ends the host without EHLO (521 with
\* Indeterminate "server does not receive mail"), a non-2xx EHLO reply ends
\* it with a protocol error without STARTTLS, MAIL FROM or RCPT TO.
C21_EnvelopeOnlyAfterPositiveBannerAndEhlo ==
    \A h \in 1..Len(hosts) :
        LET hw == HostWire(hosts[h]) IN
        (hw # <<>> /\ hw[1].dir = "S") =>
            /\ CommandsTo(hosts[h]) \cap EnvelopeCommands # {} =>
                   /\ is_positive_completion(hw[1].code)
                   /\ EhloReplyCodes(hosts[h]) # {}
                   /\ \A c \in EhloReplyCodes(hosts[h]) : is_positive_completion(c)
            /\ ~is_positive_completion(hw[1].code) =>
                   /\ "EHLO" \notin CommandsTo(hosts[h])
                   /\ (hw[1].code = 521 /\ Len(host_results) >= h) =>
                          host_results[h] = Indeterminate("server does not receive mail", 0)
            /\ \A k \in Answered(hosts[h], {"EHLO"}) :
                   ~is_positive_completion(wire[k + 1].code) =>
                       /\ CommandsAfter(hosts[h], k)
                              \cap ({"STARTTLS"} \cup EnvelopeCommands) = {}
                       /\ Len(host_results) >= h => host_results[h] = Failed(ProtocolError)


\* the commands sent to host h, in order
CommandSeq(h) ==
    LET cs == SelectSeq(HostWire(h), LAMBDA l : l.dir = "C")
    IN  [i \in 1..Len(cs) |-> cs[i].text]

\* host h advertised STARTTLS in a reply line
Advertised(h) == \E i \in 1..Len(wire) :
    wire[i].host = h /\ wire[i].dir = "S" /\ wire[i].text = "STARTTLS"

StartTlsReplyCodes(h) == {wire[k + 1].code : k \in Answered(h, {"STARTTLS"})}

Handshake(h, outcome) ==
    \E i \in 1..Len(handshakes) : handshakes[i] = [host |-> h, outcome |-> outcome]

StartsWith(seq, prefix) ==
    Len(seq) >= Len(prefix) /\ SubSeq(seq, 1, Len(prefix)) = prefix

\* C22: MAIL FROM goes over an unencrypted session only if STARTTLS was not
\* advertised and starttls_required is off; when advertised the order is
\* STARTTLS, 2xx, successful handshake, EHLO again, MAIL FROM; with STARTTLS
\* required and not advertised, or answered non-2xx, the host is
\* Indeterminate without MAIL FROM; a failed handshake ends it with an error.
C22_StartTlsBeforeEnvelope ==
    \A h \in 1..Len(hosts) :
        /\ "MAIL FROM" \in CommandsTo(hosts[h]) =>
               IF Advertised(hosts[h])
               THEN /\ StartsWith(CommandSeq(hosts[h]),
                                  <<"EHLO", "STARTTLS", "EHLO", "MAIL FROM">>)
                    /\ \A c \in StartTlsReplyCodes(hosts[h]) : is_positive_completion(c)
                    /\ handshakes # <<>>
                    /\ Handshake(hosts[h], "ok")
                    /\ ~Handshake(hosts[h], "failure")
               ELSE /\ ~options.starttls_required
                    /\ StartsWith(CommandSeq(hosts[h]), <<"EHLO", "MAIL FROM">>)
                    /\ ~Handshake(hosts[h], "ok")
        /\ (\/ /\ options.starttls_required
               /\ EhloReplyCodes(hosts[h]) # {}
               /\ ~Advertised(hosts[h])
            \/ \E c \in StartTlsReplyCodes(hosts[h]) : ~is_positive_completion(c)) =>
               /\ "MAIL FROM" \notin CommandsTo(hosts[h])
               /\ ~Handshake(hosts[h], "ok")
               /\ Len(host_results) >= h => host_results[h].kind = "Indeterminate"
        /\ Handshake(hosts[h], "failure") =>
               /\ CommandSeq(hosts[h]) = <<"EHLO", "STARTTLS">>
               /\ Len(host_results) >= h
               /\ host_results[h] = Failed(TlsError)

\* a host advertised STARTTLS, the handshake succeeded and the envelope
\* was sent after the second EHLO
C22_Witness ==
    /\ pc = "done"
    /\ Advertised(hosts[1])
    /\ Handshake(hosts[1], "ok")
    /\ StartsWith(CommandSeq(hosts[1]), <<"EHLO", "STARTTLS", "EHLO", "MAIL FROM">>)
    /\ TargetRcpt \in CommandsTo(hosts[1])


Some01(b) == IF b THEN 1 ELSE 0

\* the verdict the RCPT replies of host h give, as probe_host computes it
\* from the target reply and the replies to the random aliases
VerdictOfRcpts(h) ==
    LET c == CHOOSE c \in TargetReplyCodes(h) : TRUE
        codes == AliasReplyCodes(h)
    IN  IF classify_target(c).kind # "Accepted" THEN classify_target(c)
        ELSE IF catchall_locals = <<>> THEN Indeterminate("catch-all probes disabled", 0)
        ELSE catchall_verdict(Some01(codes \cap (200..299) # {}),
                              Some01(codes \cap {550, 551, 553} # {}),
                              Some01(codes \cap (400..499) # {}))

\* C23: a 5xx reply to MAIL FROM ends the host with Indeterminate and no
\* RCPT TO; after a 4xx reply the RCPT TO of the target is sent all the same
\* and the verdict of the host comes from the RCPT replies.
C23_MailFromRejectedOrTolerated ==
    \A h \in 1..Len(hosts) : \A k \in Answered(hosts[h], {"MAIL FROM"}) :
        /\ is_permanent_failure(wire[k + 1].code) =>
               /\ CommandsAfter(hosts[h], k) \subseteq {"QUIT"}
               /\ Len(host_results) >= h =>
                      host_results[h] = Indeterminate("MAIL FROM rejected with", wire[k + 1].code)
        /\ is_transient_failure(wire[k + 1].code) =>
               /\ (cur = h /\ pc = "rcpt") \/ TargetRcpt \in CommandsAfter(hosts[h], k)
                      \/ (Len(host_results) >= h /\ host_results[h] = Failed(IoError))
               /\ (Len(host_results) >= h /\ host_results[h].kind # "Err") =>
                      /\ TargetReplyCodes(hosts[h]) # {}
                      /\ host_results[h] = VerdictOfRcpts(hosts[h])

\* MAIL FROM got 451, the target RCPT 550, and the host was given DoesNotExist
C23_Witness ==
    /\ pc = "done"
    /\ \E k \in Answered(hosts[1], {"MAIL FROM"}) : wire[k + 1].code = 451
    /\ TargetReplyCodes(hosts[1]) = {550}
    /\ host_results[1] = DoesNotExist


\* ------------------------------------------------------------------------
\* read_reply of the two SMTP sessions: smtp_verify::session::SmtpStream and
\* mx::deliverability::session::SmtpSession.  The peer sends the lines of
\* rr_input and then closes the connection.
\* ------------------------------------------------------------------------
MaxLines == 3

ReplyLinePool ==
    {"250-mx", "250 ok", "250", "250-", "550-no", "550 no", "25", "2x0 hi", "999 odd",
     "099 low", "+25 plus"}

is_digit(c) == c # "" /\ Ord(c) >= Ord("0") /\ Ord(c) <= Ord("9")

RECURSIVE digits_value(_, _)
\* the number the decimal digits of s denote, after acc
digits_value(s, acc) ==
    IF s = "" THEN acc ELSE digits_value(Rest(s), 10 * acc + (Ord(Head(<<CharAt(s, 1)>>)) - Ord("0")))

all_digits(s) == s # "" /\ \A i \in 1..Len(s) : is_digit(CharAt(s, i))

\* str::parse::<u16> on at most three characters: digits, a leading '+' allowed
parse_u16(s) ==
    IF all_digits(s) THEN Some(digits_value(s, 0))
    ELSE IF CharAt(s, 1) = "+" /\ all_digits(Rest(s)) THEN Some(digits_value(Rest(s), 0))
    ELSE None

\* mutant: no line is a continuation line
is_continuation_never(line) == FALSE

\* the byte at index 3 is '-'
is_continuation(line) == Len(line) >= 4 /\ CharAt(line, 4) = "-"

\* one turn of the loop of SmtpStream::read_reply on a line that was read
verify_line(line, code, lines) ==
    IF Len(line) < 3 THEN Err("Protocol")
    ELSE IF parse_u16(SubSeq(line, 1, 3)) = None THEN Err("Protocol")
    ELSE IF code # None /\ code # parse_u16(SubSeq(line, 1, 3)) THEN Err("Protocol")
    ELSE [kind |-> IF is_continuation(line) THEN "More" ELSE "Ok",
          code |-> parse_u16(SubSeq(line, 1, 3)),
          lines |-> Append(lines, IF Len(line) > 4 THEN SubSeq(line, 5, Len(line)) ELSE "")]

\* one turn of the loop of SmtpSession::read_reply (mx) on a line that was read
mx_line(line, code, lines) ==
    IF Len(line) < 3 THEN Err("InvalidData")
    ELSE IF parse_u16(SubSeq(line, 1, 3)) = None THEN Err("InvalidData")
    ELSE IF code # None /\ code # parse_u16(SubSeq(line, 1, 3)) THEN Err("InvalidData")
    ELSE [kind |-> IF is_continuation(line) THEN "More" ELSE "Ok",
          code |-> parse_u16(SubSeq(line, 1, 3)),
          lines |-> Append(lines,
                           LET text_start == IF Len(line) > 3 THEN 4 ELSE 3
                           IN  IF Len(line) > text_start
                               THEN SubSeq(line, text_start + 1, Len(line)) ELSE "")]

RECURSIVE join(_, _)
\* [String]::join
join(texts, sep) ==
    IF texts = <<>> THEN ""
    ELSE IF Len(texts) = 1 THEN texts[1]
    ELSE texts[1] \o sep \o join(Tail(texts), sep)

ReplyInit ==
    /\ rr_session \in {"smtp_verify", "mx"}
    /\ \E n \in 1..MaxLines : rr_input \in Tuples(ReplyLinePool, n)
    /\ rr_pos = 1
    /\ rr_code = None
    /\ rr_lines = <<>>
    /\ rr_result = <<>>

\* what a turn of the loop leaves: the locals, or the value returned
ReplyStep(step, reply) ==
    IF step.kind = "Err"
    THEN /\ rr_result' = step
         /\ UNCHANGED <<rr_pos, rr_code, rr_lines>>
    ELSE /\ rr_pos' = rr_pos + 1
         /\ rr_code' = step.code
         /\ rr_lines' = step.lines
         /\ rr_result' = IF step.kind = "Ok" THEN Ok(reply) ELSE rr_result

\* SmtpStream::read_reply: one turn of the loop
VerifyReadLine ==
    /\ rr_session = "smtp_verify"
    /\ rr_result = <<>>
    /\ IF rr_pos > Len(rr_input)
       THEN ReplyStep(Err("Io"), <<>>)
       ELSE LET step == verify_line(rr_input[rr_pos], rr_code, rr_lines)
            IN  ReplyStep(step, IF step.kind = "Err" THEN <<>>
                                ELSE [code |-> step.code[1], lines |-> step.lines])
    /\ UNCHANGED <<rr_session, rr_input, outsideReply>>

\* SmtpSession::read_reply (mx): one turn of the loop
MxReadLine ==
    /\ rr_session = "mx"
    /\ rr_result = <<>>
    /\ IF rr_pos > Len(rr_input)
       THEN ReplyStep(Err("UnexpectedEof"), <<>>)
       ELSE LET step == mx_line(rr_input[rr_pos], rr_code, rr_lines)
            IN  ReplyStep(step, IF step.kind = "Err" THEN <<>>
                                ELSE [code |-> step.code[1],
                                      message |-> join(step.lines, "\n")])
    /\ UNCHANGED <<rr_session, rr_input, outsideReply>>

ReplyNext == VerifyReadLine \/ MxReadLine

ReplyCallInit == ReplyInit /\ ReplyAlone

SpecReply == ReplyCallInit /\ [][ReplyNext]_vars

\* the three characters that start line i of the input
CodePart(i) == SubSeq(rr_input[i], 1, 3)

\* the text of line i of the input: what follows its separator
TextOf(i) == IF Len(rr_input[i]) > 4 THEN SubSeq(rr_input[i], 5, Len(rr_input[i])) ELSE ""

\* line i of the input has '-' as its 4th character
Continues(i) == Len(rr_input[i]) >= 4 /\ SubSeq(rr_input[i], 4, 4) = "-"

\* the lines the read has consumed
Consumed == IF rr_result # <<>> /\ rr_result.kind = "Ok" THEN rr_pos - 1 ELSE rr_pos

\* C24: read_reply consumes lines up to the first one whose 4th character
\* is not '-'; a line whose code differs from the first line's makes the
\* read fail with a protocol error and no reply; a returned reply is made of
\* continuation lines and one final line, all of one code, and its text has
\* one entry per line, in order.
C24_ReplyIsLinesOfOneCode ==
    /\ (rr_result # <<>> /\ rr_result.kind = "Ok") =>
           LET n == rr_pos - 1 IN
           /\ n >= 1 /\ n <= Len(rr_input)
           /\ \A i \in 1..(n - 1) : Continues(i)
           /\ ~Continues(n)
           /\ \A i \in 1..n :
                  parse_u16(CodePart(i)) = Some(rr_result.value.code)
           /\ IF rr_session = "smtp_verify"
              THEN rr_result.value.lines = [i \in 1..n |-> TextOf(i)]
              ELSE rr_result.value.message = join([i \in 1..n |-> TextOf(i)], "\n")
    /\ LET MismatchAtPos ==
                /\ rr_pos > 1
                /\ rr_pos <= Len(rr_input)
                /\ \A k \in 1..(rr_pos - 1) : Continues(k)
                /\ \A k \in 1..rr_pos :
                       Len(rr_input[k]) >= 3 /\ parse_u16(CodePart(k)) # None
                /\ \A k \in 1..(rr_pos - 1) :
                       parse_u16(CodePart(k)) = parse_u16(CodePart(1))
                /\ parse_u16(CodePart(rr_pos)) # parse_u16(CodePart(1))
       IN  (rr_session # "" /\ rr_result # <<>> /\ MismatchAtPos) =>
               rr_result \in {Err("Protocol"), Err("InvalidData")}

\* a reply of three lines was returned
C24_Witness ==
    /\ rr_result # <<>>
    /\ rr_result.kind = "Ok"
    /\ rr_session = "smtp_verify"
    /\ Len(rr_result.value.lines) = 3
    /\ rr_result.value.lines[1] # rr_result.value.lines[3]

\* C25: every reply returned by read_reply has a code in 100..599; a line
\* that does not start with three decimal digits, or whose code is outside
\* 100..599, makes the read fail with a protocol error.
C25_CodeBetween100And599 ==
    (rr_result # <<>> /\ rr_result.kind = "Ok") =>
        /\ rr_result.value.code \in 100..599
        /\ \A i \in 1..(rr_pos - 1) : all_digits(CodePart(i))


\* the text of segment k of the input: 0 is the local part, k the k-th label
TextOfSegment(k) == IF k = 0 THEN sc_input.local ELSE sc_input.labels[k]

\* ch has a script other than Common, Inherited and Unknown
HasMajorScript(ch) == script_of(ch) \notin {"Common", "Inherited", "Unknown"}

\* the places of text whose character has a major script
ScriptedPlaces(text) == {i \in 1..Len(text) : HasMajorScript(text[i])}

\* the places of text whose major script is not that of the first scripted character
DifferingPlaces(text) ==
    {i \in ScriptedPlaces(text) :
        \E j \in ScriptedPlaces(text) :
            /\ \A l \in ScriptedPlaces(text) : j <= l
            /\ script_of(text[i]) # script_of(text[j])}

\* the MixedScript findings owed to segment k once its first upto characters were seen
MixedFindingsOf(k, upto) ==
    LET places == {i \in DifferingPlaces(TextOfSegment(k)) : i <= upto}
        first == CHOOSE i \in places : \A j \in places : i <= j
    IN  IF spec_options.detect_mixed_scripts /\ places # {}
        THEN <<SpecFinding(IF k = 0 THEN Local ELSE Label(sc_input.labels[k]),
                           TextOfSegment(k)[first], "MixedScript")>>
        ELSE <<>>

RECURSIVE MixedFindingsUpTo(_)
\* the MixedScript findings owed to the segments 0..k, of which k is under scan
MixedFindingsUpTo(k) ==
    IF k = scan.seg
    THEN (IF k = 0 THEN <<>> ELSE MixedFindingsUpTo(k - 1)) \o MixedFindingsOf(k, scan.pos - 1)
    ELSE (IF k = 0 THEN <<>> ELSE MixedFindingsUpTo(k - 1))
             \o MixedFindingsOf(k, Len(TextOfSegment(k)))

IsMixedScript(finding) == finding.class = "MixedScript"

\* C26: with detect_mixed_scripts on, each segment (the local part and each
\* label, separately) gets at most one MixedScript finding: it is placed at
\* the first character whose major script differs from the script of the
\* segment's first character that has a major script; later differing
\* characters add nothing, and the primary script starts afresh per segment.
C26_OneMixedScriptFindingPerSegment ==
    sc_input # <<>> =>
        SelectSeq(computation.characters.details, IsMixedScript) = MixedFindingsUpTo(scan.seg)

\* a local part of three scripts and a label of two were scanned: two findings
C26_Witness ==
    /\ sc_input # <<>>
    /\ sc_pc = "done"
    /\ spec_options.detect_mixed_scripts
    /\ sc_input.local = <<"cyr_a", "a", "han_zhong">>
    /\ Len(sc_input.labels) = 2
    /\ sc_input.labels[2] = <<"cyr_a", "a">>
    /\ Len(SelectSeq(computation.characters.details, IsMixedScript)) = 2


\* C27: at most one SMTP session is open at any time: the session to a host
\* is closed before the next connection and none is open when the call
\* returns; a command is sent only after the complete reply to the previous
\* command or banner; the catch-all probes follow the target RCPT on the
\* same session.
C27_OneSessionOneCommandAtATime ==
    /\ pc \in {"connect", "done"} => ~session.open
    /\ pc \notin {"idle", "connect", "done"} =>
           /\ session.open
           /\ \A i \in 1..Len(wire) : wire[i].host <= host
    /\ \A i \in 1..Len(wire), j \in 1..Len(wire) :
           wire[i].host < wire[j].host => i < j
    /\ \A k \in 1..Len(wire) :
           wire[k].dir = "C" =>
               \/ k < Len(wire) /\ wire[k + 1].host = wire[k].host /\ wire[k + 1].dir = "S"
               \/ \A j \in (k + 1)..Len(wire) : wire[j].host # wire[k].host
    /\ \A k \in 1..Len(wire) :
           wire[k].dir = "C" /\ wire[k].text \in AliasRcpts =>
               \E j \in 1..(k - 1) :
                   /\ wire[j].host = wire[k].host
                   /\ wire[j].dir = "C"
                   /\ wire[j].text = TargetRcpt


\* the places in the wire of the RCPT TO of random aliases sent to host h
AliasCommands(h) ==
    {k \in 1..Len(wire) : wire[k].host = h /\ wire[k].dir = "C" /\ wire[k].text \in AliasRcpts}

\* the places in the wire where host h answered the target RCPT with 2xx
TargetAccepted(h) ==
    {k \in Answered(h, {TargetRcpt}) : wire[k + 1].code >= 200 /\ wire[k + 1].code < 300}

\* C29: the RCPT TO of a random alias is sent to a host only after its
\* target RCPT got a 2xx reply, and at most min(catchall_probes, 5) of them
\* per host; with catchall_probes = 0 a host that accepted the target gives
\* Indeterminate("catch-all probes disabled"), and the call never returns
\* Exists or CatchAll.
C29_AliasesOnlyAfterAcceptedTarget ==
    \A h \in 1..Len(hosts) :
        /\ \A k \in AliasCommands(h) : \E j \in TargetAccepted(h) : j < k
        /\ Cardinality(AliasCommands(h)) <= Min(options.catchall_probes, CatchallCap)
        /\ (options.catchall_probes = 0 /\ TargetAccepted(h) # {} /\ h <= Len(host_results)) =>
               host_results[h] = Indeterminate("catch-all probes disabled", 0)
        /\ (options.catchall_probes = 0 /\ pc = "done") =>
               report.result.kind \notin {"Exists", "CatchAll"}

\* a call that asked for more aliases than the cap sent the cap's number of
\* them after the target was accepted, and returned
C29_Witness ==
    /\ pc = "done"
    /\ options.catchall_probes > CatchallCap
    /\ TargetAccepted(1) # {}
    /\ Cardinality(AliasCommands(1)) = CatchallCap


\* C30: the attempts are made in the order of the sorted MX records, at most
\* max_servers of them; an Accepted attempt is the last of the list, and an
\* attempt with any other outcome is followed by one on the next record
\* when a record remains within max_servers.
C30_ProbingStopsOnlyAfterAccepted ==
    mx_pc # "idle" =>
        /\ Len(attempts) <= Min(Len(mx_records), mx_options.max_servers)
        /\ \A k \in 1..Len(attempts) :
               /\ attempts[k].exchange = mx_records[k].exchange
               /\ attempts[k].outcome.kind \in
                      {"Accepted", "Rejected", "TemporaryFailure", "Unreachable",
                       "ProtocolError", "NoVerification"}
               /\ attempts[k].outcome.kind = "Accepted" => k = Len(attempts)
        /\ mx_pc = "done" =>
               /\ verification.attempts = attempts
               /\ \/ Len(attempts) = Min(Len(mx_records), mx_options.max_servers)
                  \/ attempts # <<>> /\ attempts[Len(attempts)].outcome.kind = "Accepted"

\* the first server rejected the address and the second was probed
C30_Witness ==
    /\ mx_pc = "done"
    /\ Len(attempts) = 2
    /\ attempts[1].outcome.kind = "Rejected"
    /\ attempts[2].outcome.kind \in {"TemporaryFailure", "Accepted"}


\* ------------------------------------------------------------------------
\* smtp_verify::session: SmtpStream::upgrade_tls and complete_handshake.
\* The socket is a blocking one with the read and write timeouts connect
\* gave it.  hs_script is what the peer does: it leaves `blocks` polls of the
\* handshake without the data they wait for, and then completes the
\* handshake, fails it, or stays silent.
\* ------------------------------------------------------------------------
MaxPolls == 3

TimeoutMsPool == {0, 5000}

\* SmtpProbeOptions::timeout
timeout(timeout_ms) == IF timeout_ms = 0 THEN None ELSE Some(timeout_ms)

HandshakeScripts ==
    [state : {"Plain", "Tls"}, blocks : 0..MaxPolls, then : {"Ok", "Failure", "Silent"},
     set_timeout_fails : BOOLEAN]

TlsInit ==
    /\ hs_timeout \in {timeout(ms) : ms \in TimeoutMsPool}
    /\ hs_script \in HandshakeScripts
    /\ hs_pc = "upgrade_tls"
    /\ hs_polls = 0
    /\ hs_result = <<>>

TlsFixed == <<hs_timeout, hs_script, outsideTls>>

\* what poll number k of the handshake returns, when it returns: a read that
\* waits longer than the socket's timeout gives WouldBlock
poll_outcome(k) ==
    IF hs_timeout # None /\ (k <= hs_script.blocks \/ hs_script.then = "Silent")
    THEN "WouldBlock"
    ELSE hs_script.then

\* a poll returns: without a timeout a read on a silent peer never does
poll_returns(k) == hs_timeout # None \/ hs_script.then # "Silent"

\* the polls counted, up to one past MaxPolls
counted(n) == IF n <= MaxPolls THEN n + 1 ELSE n

\* the match on the result of connect or handshake
AfterPoll(outcome) ==
    /\ hs_polls' = counted(hs_polls)
    /\ CASE outcome = "Ok" ->
                /\ hs_pc' = "set_timeouts"
                /\ UNCHANGED hs_result
         [] outcome = "Failure" ->
                /\ hs_pc' = "done"
                /\ hs_result' = Err("Tls")
         [] outcome = "WouldBlock" ->
                /\ hs_pc' = "would_block"
                /\ UNCHANGED hs_result

\* upgrade_tls takes the stream out of self.state
UpgradeTlsStart ==
    /\ hs_pc = "upgrade_tls"
    /\ IF hs_script.state = "Tls"
       THEN /\ hs_pc' = "done"
            /\ hs_result' = Ok("Tls")
       ELSE /\ hs_pc' = "connect"
            /\ UNCHANGED hs_result
    /\ UNCHANGED <<hs_polls, TlsFixed>>

\* complete_handshake: connector.connect(domain, stream)
ConnectorConnect ==
    /\ hs_pc = "connect"
    /\ poll_returns(hs_polls + 1)
    /\ AfterPoll(poll_outcome(hs_polls + 1))
    /\ UNCHANGED TlsFixed

\* complete_handshake: one turn of the loop, mid.handshake()
MidHandshake ==
    /\ hs_pc = "handshake"
    /\ poll_returns(hs_polls + 1)
    /\ AfterPoll(poll_outcome(hs_polls + 1))
    /\ UNCHANGED TlsFixed

\* complete_handshake: the mid-handshake stream is kept and polled again
Repoll ==
    /\ hs_pc = "would_block"
    /\ hs_pc' = "handshake"
    /\ UNCHANGED <<hs_polls, hs_result, TlsFixed>>

\* upgrade_tls after complete_handshake returned the TLS stream
SetTimeouts ==
    /\ hs_pc = "set_timeouts"
    /\ hs_pc' = "done"
    /\ hs_result' = IF hs_timeout # None /\ hs_script.set_timeout_fails
                    THEN Err("Io") ELSE Ok("Tls")
    /\ UNCHANGED <<hs_polls, TlsFixed>>

TlsNext == UpgradeTlsStart \/ ConnectorConnect \/ MidHandshake \/ Repoll \/ SetTimeouts

TlsCallInit == TlsInit /\ TlsAlone

SpecTls == TlsCallInit /\ [][TlsNext]_vars

\* the thread that runs upgrade_tls is not suspended for ever: a step it can
\* take is taken
SpecTlsFair == SpecTls /\ WF_vars(TlsNext)

\* C28: the TLS handshake always terminates: it polls again while the
\* handshake reports would-block and stops on success, on failure or when
\* the deadline of the configured timeout passes.  Stated for the calls
\* that have a timeout configured.
C28_HandshakeTerminates == hs_timeout # None => <>(hs_pc = "done")

====
